---- MODULE Spec2Model ----
(***************************************************************************)
(* State-machine model of the claude-model-mapping gateway:                *)
(*   - the model-based router                (src/src/router.ts)           *)
(*   - the StreamTranslator                  (src/src/translator/          *)
(*                                            tools.test.ts, l. 64-283)    *)
(*   - the CLIProxyAPI intercept handlers    (src/src/providers/proxy.ts)  *)
(*   - the Code Assist handlers with OAuth   (src/src/providers/gemini.ts, *)
(*                                            l. 210-767)                  *)
(*   - the Anthropic passthrough             (src/unnamed/part_007)        *)
(*   - the SSE parser                        (src/src/translator/          *)
(*                                            tools.test.ts, l. 290-347)   *)
(*   - anthropicToGemini and cleanSchema     (src/src/translator/          *)
(*                                            messages.ts)                 *)
(*   - start, shutdown and cleanup           (src/src/index.ts,            *)
(*                                            src/src/dns.ts)              *)
(*   - the logger                            (src/src/logger.ts)           *)
(* Each subsystem has its own variables, initial predicate, next-state     *)
(* relation and specification; the variables of the other subsystems stay  *)
(* at their initial value.                                                 *)
(***************************************************************************)
EXTENDS Integers, Sequences, FiniteSets, TLC

VARIABLES
  mapping,      \* router: MappingConfig {sourceModel, targetModel}
  rt,           \* router: per-request state of handleRequest
  rtCalls,      \* router: handler calls made for the current request, in order
  tr,           \* StreamTranslator: the object's fields
  out,          \* StreamTranslator: frames returned by the last processChunk call
  mon,          \* StreamTranslator: observer of all frames returned so far
  nChunks,      \* StreamTranslator: number of processChunk calls made
  px,           \* CLIProxyAPI handler: state of one handleProxy* call
  cl,           \* CLIProxyAPI handler: the client response (clientRes)
  cachedToken,  \* Code Assist handler: the module-level token cache
  creds,        \* Code Assist handler: the OAuth credentials file
  oauth,        \* Code Assist handler: refreshToken calls started / answered
  gq,           \* Code Assist handler: state of each handleGemini* call
  gc,           \* Code Assist handler: each call's client response
  pt,           \* passthrough: state of one forwardToAnthropic call
  pcl,          \* passthrough: the client response (clientRes)
  parser,       \* SSEParser: the buffer field
  sseIn,        \* SSEParser: the events framed for the stream
  sseRun,       \* SSEParser: position in the stream and events returned so far
  messages,     \* anthropicToGemini: req.messages
  ag,           \* anthropicToGemini: position in the function, toolIdMap and contents
  toolSchema,   \* cleanSchema: tool.input_schema
  sc,           \* cleanSchema: the cleaned schema and the result of cleaning it again
  gw,           \* gateway process: position in startInterceptor, handlers, PID file, exit
  hostsFile,    \* gateway process: lines of the hosts file that hold HOSTS_MARKER
  conns,        \* gateway process: the requests of the server (none, open, done, cut)
  logFiles,     \* logger: cmm.log and its backups, by suffix
  currentSize,  \* logger: the cached size of cmm.log, -1 before the first write
  lgWrites,     \* logger: the number of lines written
  stripBody,    \* stripThinkingBlocks: body.messages
  stripped      \* stripThinkingBlocks: the messages of the retry body

routerVars == <<mapping, rt, rtCalls>>
streamVars == <<tr, out, mon, nChunks>>
proxyVars == <<px, cl>>
geminiVars == <<cachedToken, creds, oauth, gq, gc>>
passVars == <<pt, pcl>>
sseVars == <<parser, sseIn, sseRun>>
messagesVars == <<messages, ag>>
schemaVars == <<toolSchema, sc>>
lifeVars == <<gw, hostsFile, conns>>
logVars == <<logFiles, currentSize, lgWrites>>
stripVars == <<stripBody, stripped>>

vars == <<routerVars, streamVars, proxyVars, geminiVars, passVars, sseVars, messagesVars, schemaVars, lifeVars, logVars, stripVars>>

notRouterVars == <<streamVars, proxyVars, geminiVars, passVars, sseVars, messagesVars, schemaVars, lifeVars, logVars, stripVars>>
notStreamVars == <<routerVars, proxyVars, geminiVars, passVars, sseVars, messagesVars, schemaVars, lifeVars, logVars, stripVars>>
notProxyVars == <<routerVars, streamVars, geminiVars, passVars, sseVars, messagesVars, schemaVars, lifeVars, logVars, stripVars>>
notGeminiVars == <<routerVars, streamVars, proxyVars, passVars, sseVars, messagesVars, schemaVars, lifeVars, logVars, stripVars>>
notPassVars == <<routerVars, streamVars, proxyVars, geminiVars, sseVars, messagesVars, schemaVars, lifeVars, logVars, stripVars>>
notSseVars == <<routerVars, streamVars, proxyVars, geminiVars, passVars, messagesVars, schemaVars, lifeVars, logVars, stripVars>>
notMessagesVars == <<routerVars, streamVars, proxyVars, geminiVars, passVars, sseVars, schemaVars, lifeVars, logVars, stripVars>>
notSchemaVars == <<routerVars, streamVars, proxyVars, geminiVars, passVars, sseVars, messagesVars, lifeVars, logVars, stripVars>>
notLifeVars == <<routerVars, streamVars, proxyVars, geminiVars, passVars, sseVars, messagesVars, schemaVars, logVars, stripVars>>
notLogVars == <<routerVars, streamVars, proxyVars, geminiVars, passVars, sseVars, messagesVars, schemaVars, lifeVars, stripVars>>
notStripVars == <<routerVars, streamVars, proxyVars, geminiVars, passVars, sseVars, messagesVars, schemaVars, lifeVars, logVars>>

(***************************************************************************)
(* Bounds of the model.                                                    *)
(***************************************************************************)
MaxModelLen == 2     \* longest model name, in characters
MaxUrlLen == 3       \* longest request URL, in tokens
MaxChunks == 2       \* processChunk calls on one translator
MaxChunkItems == 2   \* candidates plus parts in one chunk
MaxData == 2         \* data events of one streamed upstream response
NumRequests == 2     \* concurrent client requests on the Code Assist path
MaxBlocks == 2       \* content blocks of the assistant message of a request body
MaxMembers == 1      \* members of one JSON object event
MaxEvents == 2       \* events framed into one upstream stream
MaxItems == 6        \* blocks plus messages of one translated request
MaxSchemaDepth == 3  \* levels of objects in a tool schema
MaxNest == 33        \* levels a tool schema is nested in
MaxWrites == 5       \* lines written to the log
MaxParts == 3        \* parts of the candidate of a chunk of several parts
MaxStripMessages == 2  \* messages of a body given to stripThinkingBlocks

(***************************************************************************)
(* Generic helpers.                                                        *)
(***************************************************************************)
SeqsUpTo(S, n) == UNION {[1..k -> S] : k \in 0..n}

RECURSIVE IndexOf(_, _, _)
\* Array/String.prototype.indexOf from position i: 0 when x does not occur.
IndexOf(s, x, i) ==
  IF i > Len(s) THEN 0
  ELSE IF s[i] = x THEN i
  ELSE IndexOf(s, x, i + 1)

\* An http.ServerResponse as its writer sees it.
ClInit ==
  [headersSent |-> FALSE, status |-> 0, errType |-> "", provider |-> "",
   ended |-> FALSE, closed |-> FALSE, writeHeads |-> 0, written |-> 0, lateCalls |-> 0,
   needDrain |-> FALSE, undrained |-> 0]

\* clientRes.writable
Writable(c) == ~c.closed /\ ~c.ended

Late(c) == IF c.closed THEN 1 ELSE 0

\* clientRes.writeHead(status, headers)
WriteHead(c, status, provider) ==
  [c EXCEPT !.headersSent = TRUE, !.status = status, !.provider = provider,
            !.writeHeads = @ + 1, !.lateCalls = @ + Late(c)]

\* clientRes.end(body): errType is the error type of a JSON error body, "" otherwise
\* (an end() before any writeHead sends the implicit 200 head)
EndWith(c, errType) ==
  [c EXCEPT !.ended = TRUE, !.errType = IF Writable(c) THEN errType ELSE @,
            !.headersSent = TRUE, !.status = IF c.headersSent THEN @ ELSE 200,
            !.lateCalls = @ + Late(c)]

\* clientRes.write(chunk) returning ~full; once a write has returned false,
\* writes keep returning false until 'drain'.  undrained counts the writes
\* made while an earlier false had not been answered by 'drain'.
WriteChunk(c, full) ==
  [c EXCEPT !.written = @ + 1,
            !.undrained = IF c.needDrain THEN @ + 1 ELSE @,
            !.needDrain = @ \/ full]

\* the client's 'drain' event
Drained(c) == [c EXCEPT !.needDrain = FALSE]

(***************************************************************************)
(* StreamTranslator (src/src/translator/tools.test.ts, lines 64-283).      *)
(* A frame is the record of one sseEvent(...) string: its event name, the  *)
(* block index it carries (-1 when it has none), the block, delta or stop  *)
(* reason type, and the token count it reports.                            *)
(***************************************************************************)
NoUsage == [has |-> FALSE, prompt |-> 0, cand |-> 0]
Usages == {NoUsage, [has |-> TRUE, prompt |-> 0, cand |-> 0],
           [has |-> TRUE, prompt |-> 3, cand |-> 4]}

\* The parts of a candidate, as the fields processChunk reads:
\* functionCall present or not, thought flag, text absent / "" / non-empty,
\* and functionCall.args: absent or the object {a: 1}.
FunctionCallPart ==
  [functionCall |-> TRUE, thought |-> FALSE, text |-> "absent", args |-> "absent"]
FunctionCallArgsPart ==
  [functionCall |-> TRUE, thought |-> FALSE, text |-> "absent", args |-> "a1"]
ThoughtPart ==
  [functionCall |-> FALSE, thought |-> TRUE, text |-> "t", args |-> "absent"]
TextPart ==
  [functionCall |-> FALSE, thought |-> FALSE, text |-> "t", args |-> "absent"]
EmptyTextPart ==
  [functionCall |-> FALSE, thought |-> FALSE, text |-> "", args |-> "absent"]
Parts == {FunctionCallPart, ThoughtPart, TextPart, EmptyTextPart}

\* Candidate lists are enumerated through their flattened form: the parts of
\* each candidate followed by a mark, "fin" (finishReason set) or "end" (not set).
ChunkTokens ==
  [mark : {"part"}, part : Parts] \cup [mark : {"end", "fin"}, part : {EmptyTextPart}]

RECURSIVE CandidatesOf(_, _)
CandidatesOf(toks, parts) ==
  IF toks = <<>> THEN <<>>
  ELSE IF Head(toks).mark # "part"
       THEN <<[parts |-> parts, finishReason |-> Head(toks).mark = "fin"]>>
              \o CandidatesOf(Tail(toks), <<>>)
       ELSE CandidatesOf(Tail(toks), Append(parts, Head(toks).part))

CandidateLists ==
  {CandidatesOf(t, <<>>) :
     t \in {u \in SeqsUpTo(ChunkTokens, MaxChunkItems) :
              u = <<>> \/ u[Len(u)].mark # "part"}}

Chunks ==
  [error : {FALSE}, usage : Usages, candidates : CandidateLists]
  \cup [error : {TRUE}, usage : Usages,
        candidates : {<<>>, <<[parts |-> <<TextPart>>, finishReason |-> TRUE]>>}]

\* Chunks with one candidate of up to MaxParts parts, for the claims about
\* several parts in one chunk.
CallParts == {FunctionCallPart, FunctionCallArgsPart, TextPart, ThoughtPart}

CallChunks ==
  {[error |-> FALSE, usage |-> NoUsage,
    candidates |-> <<[parts |-> ps, finishReason |-> fin]>>] :
     ps \in SeqsUpTo(CallParts, MaxParts), fin \in BOOLEAN}

\* Chunks for the claims about usageMetadata: every usage, with and without
\* error, parts and finishReason.
UsageChunks ==
  [error : BOOLEAN, usage : Usages,
   candidates : {<<>>,
                 <<[parts |-> <<>>, finishReason |-> TRUE]>>,
                 <<[parts |-> <<TextPart>>, finishReason |-> FALSE]>>,
                 <<[parts |-> <<ThoughtPart>>, finishReason |-> FALSE]>>,
                 <<[parts |-> <<FunctionCallPart>>, finishReason |-> TRUE]>>,
                 <<[parts |-> <<TextPart>>, finishReason |-> TRUE]>>}]

Frame(event, index, kind, tokens) ==
  [event |-> event, index |-> index, kind |-> kind, tokens |-> tokens, json |-> ""]

\* a frame whose data holds JSON text (input, partial_json)
JsonFrame(event, index, kind, json) ==
  [event |-> event, index |-> index, kind |-> kind, tokens |-> 0, json |-> json]

\* JSON.stringify(part.functionCall.args || {})
InputJson(args) == IF args = "a1" THEN "{\"a\":1}" ELSE "{}"

TrInit == [blockIndex |-> 0, activeBlockType |-> "null", started |-> FALSE,
           hasFunctionCall |-> FALSE, inputTokens |-> 0, outputTokens |-> 0]

\* emitSignatureDelta()
EmitSignatureDelta(s) ==
  <<Frame("content_block_delta", s.blockIndex, "signature_delta", 0)>>

BlockStop(s) == <<Frame("content_block_stop", s.blockIndex, "", 0)>>

\* lines 90-97: usage tracking (a count of 0 is falsy and is not stored)
TrackUsage(s, u) ==
  IF ~u.has THEN s
  ELSE [s EXCEPT !.inputTokens = IF u.prompt # 0 THEN u.prompt ELSE @,
                 !.outputTokens = IF u.cand # 0 THEN u.cand ELSE @]

\* the prelude without `this.started = true`
PreludeEveryChunk(s) ==
  [st |-> s,
   ev |-> <<Frame("message_start", -1, "", s.inputTokens), Frame("ping", -1, "", 0)>>]

\* lines 99-117: message_start and ping on the first chunk
Prelude(s) ==
  IF s.started THEN [st |-> s, ev |-> <<>>]
  ELSE [st |-> [s EXCEPT !.started = TRUE],
        ev |-> <<Frame("message_start", -1, "", s.inputTokens),
                 Frame("ping", -1, "", 0)>>]

\* a functionCall part without the final `this.blockIndex++`
PartFunctionCallSameIndex(s, part) ==
  LET closeEv == IF s.activeBlockType # "null"
                 THEN (IF s.activeBlockType = "thinking" THEN EmitSignatureDelta(s) ELSE <<>>)
                      \o BlockStop(s)
                 ELSE <<>>
      s1 == IF s.activeBlockType # "null"
            THEN [s EXCEPT !.blockIndex = @ + 1, !.activeBlockType = "null"]
            ELSE s
  IN [st |-> [s1 EXCEPT !.hasFunctionCall = TRUE],
      ev |-> closeEv
             \o <<JsonFrame("content_block_start", s1.blockIndex, "tool_use", "{}"),
                  JsonFrame("content_block_delta", s1.blockIndex, "input_json_delta",
                            InputJson(part.args)),
                  Frame("content_block_stop", s1.blockIndex, "", 0)>>]

\* lines 121-168: a functionCall part
PartFunctionCall(s, part) ==
  LET closeEv == IF s.activeBlockType # "null"
                 THEN (IF s.activeBlockType = "thinking" THEN EmitSignatureDelta(s) ELSE <<>>)
                      \o BlockStop(s)
                 ELSE <<>>
      s1 == IF s.activeBlockType # "null"
            THEN [s EXCEPT !.blockIndex = @ + 1, !.activeBlockType = "null"]
            ELSE s
  IN [st |-> [s1 EXCEPT !.hasFunctionCall = TRUE, !.blockIndex = @ + 1],
      ev |-> closeEv
             \o <<JsonFrame("content_block_start", s1.blockIndex, "tool_use", "{}"),
                  JsonFrame("content_block_delta", s1.blockIndex, "input_json_delta",
                            InputJson(part.args)),
                  Frame("content_block_stop", s1.blockIndex, "", 0)>>]

\* lines 169-196: a thought part with text
PartThought(s) ==
  LET closeEv == IF s.activeBlockType # "thinking" /\ s.activeBlockType # "null"
                 THEN BlockStop(s) ELSE <<>>
      s1 == IF s.activeBlockType # "thinking" /\ s.activeBlockType # "null"
            THEN [s EXCEPT !.blockIndex = @ + 1] ELSE s
      startEv == IF s.activeBlockType # "thinking"
                 THEN <<Frame("content_block_start", s1.blockIndex, "thinking", 0)>>
                 ELSE <<>>
  IN [st |-> [s1 EXCEPT !.activeBlockType = "thinking"],
      ev |-> closeEv \o startEv
             \o <<Frame("content_block_delta", s1.blockIndex, "thinking_delta", 0)>>]

\* a regular text part that closes a thinking block without signature_delta
PartTextNoSignature(s) ==
  LET closeEv == IF s.activeBlockType # "text" /\ s.activeBlockType # "null"
                 THEN BlockStop(s) ELSE <<>>
      s1 == IF s.activeBlockType # "text" /\ s.activeBlockType # "null"
            THEN [s EXCEPT !.blockIndex = @ + 1] ELSE s
      startEv == IF s.activeBlockType # "text"
                 THEN <<Frame("content_block_start", s1.blockIndex, "text", 0)>>
                 ELSE <<>>
  IN [st |-> [s1 EXCEPT !.activeBlockType = "text"],
      ev |-> closeEv \o startEv
             \o <<Frame("content_block_delta", s1.blockIndex, "text_delta", 0)>>]

\* lines 197-228: a regular text part
PartText(s) ==
  LET closeEv == IF s.activeBlockType # "text" /\ s.activeBlockType # "null"
                 THEN (IF s.activeBlockType = "thinking" THEN EmitSignatureDelta(s) ELSE <<>>)
                      \o BlockStop(s)
                 ELSE <<>>
      s1 == IF s.activeBlockType # "text" /\ s.activeBlockType # "null"
            THEN [s EXCEPT !.blockIndex = @ + 1] ELSE s
      startEv == IF s.activeBlockType # "text"
                 THEN <<Frame("content_block_start", s1.blockIndex, "text", 0)>>
                 ELSE <<>>
  IN [st |-> [s1 EXCEPT !.activeBlockType = "text"],
      ev |-> closeEv \o startEv
             \o <<Frame("content_block_delta", s1.blockIndex, "text_delta", 0)>>]

\* lines 120-229: the if / else-if chain over one part
ProcessPart(s, part) ==
  IF part.functionCall THEN PartFunctionCall(s, part)
  ELSE IF part.thought /\ part.text \notin {"absent", ""} THEN PartThought(s)
  ELSE IF part.text # "absent" /\ part.text # "" THEN PartText(s)
  ELSE [st |-> s, ev |-> <<>>]

RECURSIVE ProcessParts(_, _)
ProcessParts(s, parts) ==
  IF parts = <<>> THEN [st |-> s, ev |-> <<>>]
  ELSE LET a == ProcessPart(s, Head(parts))
           b == ProcessParts(a.st, Tail(parts))
       IN [st |-> b.st, ev |-> a.ev \o b.ev]

\* finish handling that forgets the function calls of the finished candidate
HandleFinishResetting(s) ==
  LET closeEv == IF s.activeBlockType # "null"
                 THEN (IF s.activeBlockType = "thinking" THEN EmitSignatureDelta(s) ELSE <<>>)
                      \o BlockStop(s)
                 ELSE <<>>
      stopReason == IF s.hasFunctionCall THEN "tool_use" ELSE "end_turn"
  IN [st |-> [s EXCEPT !.activeBlockType = "null", !.hasFunctionCall = FALSE],
      ev |-> closeEv
             \o <<Frame("message_delta", -1, stopReason, s.outputTokens),
                  Frame("message_stop", -1, "", 0)>>]

\* lines 231-256: finish handling of one candidate
HandleFinish(s) ==
  LET closeEv == IF s.activeBlockType # "null"
                 THEN (IF s.activeBlockType = "thinking" THEN EmitSignatureDelta(s) ELSE <<>>)
                      \o BlockStop(s)
                 ELSE <<>>
      stopReason == IF s.hasFunctionCall THEN "tool_use" ELSE "end_turn"
  IN [st |-> [s EXCEPT !.activeBlockType = "null"],
      ev |-> closeEv
             \o <<Frame("message_delta", -1, stopReason, s.outputTokens),
                  Frame("message_stop", -1, "", 0)>>]

\* lines 119-257: one candidate
ProcessCandidate(s, c) ==
  LET a == ProcessParts(s, c.parts)
      b == IF c.finishReason THEN HandleFinish(a.st) ELSE [st |-> a.st, ev |-> <<>>]
  IN [st |-> b.st, ev |-> a.ev \o b.ev]

RECURSIVE ProcessCandidates(_, _)
ProcessCandidates(s, cs) ==
  IF cs = <<>> THEN [st |-> s, ev |-> <<>>]
  ELSE LET a == ProcessCandidate(s, Head(cs))
           b == ProcessCandidates(a.st, Tail(cs))
       IN [st |-> b.st, ev |-> a.ev \o b.ev]

\* processChunk with the usage tracking moved before the error check
ProcessChunkOpUsageFirst(s, chunk) ==
  IF chunk.error
  THEN [st |-> TrackUsage(s, chunk.usage), ev |-> <<Frame("error", -1, "api_error", 0)>>]
  ELSE LET p == Prelude(TrackUsage(s, chunk.usage))
           c == ProcessCandidates(p.st, chunk.candidates)
       IN [st |-> c.st, ev |-> p.ev \o c.ev]

\* processChunk(chunk): the new fields and the returned frames
ProcessChunkOp(s, chunk) ==
  IF chunk.error
  THEN [st |-> s, ev |-> <<Frame("error", -1, "api_error", 0)>>]
  ELSE LET p == Prelude(TrackUsage(s, chunk.usage))
           c == ProcessCandidates(p.st, chunk.candidates)
       IN [st |-> c.st, ev |-> p.ev \o c.ev]

(***************************************************************************)
(* Observer of the concatenation of all returned frames.  It only reads    *)
(* frames; it knows nothing of the translator's fields.                    *)
(*   n            number of frames so far                                  *)
(*   first        event name of the very first frame ("" before it)        *)
(*   open         indices of the blocks started and not yet stopped        *)
(*   maxOpen      largest number of blocks open at once                    *)
(*   starts       indices of the content_block_start frames, in order      *)
(*   deltaStarts  for each content_block_delta, the number of              *)
(*                content_block_start frames of its index before it        *)
(*   deltaOpen    indices with a content_block_delta not yet followed by   *)
(*                a content_block_stop of its index                        *)
(*   deltaOnce    indices with a content_block_delta followed by at least  *)
(*                one content_block_stop of its index                      *)
(*   deltaTwice   indices with a content_block_delta followed by two or    *)
(*                more content_block_stop frames of its index              *)
(*   msgStarts, msgStops    number of message_start / message_stop frames  *)
(*   blockBeforeStart  a content_block_* frame came before message_start   *)
(*   afterStop    number of frames that came after a message_stop          *)
(*   pings        number of ping frames                                    *)
(*   afterStart   the last frame is a message_start                        *)
(*   pingMisplaced  a ping did not follow a message_start, or another      *)
(*                frame did                                                *)
(*   anyGood      a chunk without error has been processed (set by the     *)
(*                caller of processChunk, not read from the frames)        *)
(*   sawToolUse   a content_block_start of a tool_use block was seen       *)
(*   badStop      a message_delta carried "tool_use" with no tool_use      *)
(*                block before it, or "end_turn" with one                  *)
(*   openKind     type of the block started and not yet stopped ("" when   *)
(*                there is none)                                           *)
(*   sigBefore    index of the last frame when it is a signature_delta,    *)
(*                else -1                                                  *)
(*   sigInBlock   number of signature_delta frames since the last          *)
(*                content_block_start                                      *)
(*   stopNoSig    a thinking block was stopped without exactly one         *)
(*                signature_delta of its index right before the stop       *)
(*   sigOnOther   a signature_delta came with no thinking block open, or   *)
(*                with the index of another block                          *)
(*   thinkingClosed  a thinking block was stopped                          *)
(*   lastError    the last chunk processed had its error field set (set    *)
(*                by the caller)                                           *)
(*   lastPrompt, lastCand  promptTokenCount and candidatesTokenCount of    *)
(*                the most recent chunk without error that had             *)
(*                usageMetadata, -1 before the first (set by the caller    *)
(*                that follows the usage, NoteUsage)                       *)
(*   lastArgs     the args of the functionCall parts of the last chunk     *)
(*                processed, in order (set by the caller)                  *)
(***************************************************************************)
MonInit ==
  [n |-> 0, first |-> "", open |-> {}, maxOpen |-> 0, starts |-> <<>>,
   deltaStarts |-> {}, deltaOpen |-> {}, deltaOnce |-> {},
   deltaTwice |-> {}, msgStarts |-> 0, msgStops |-> 0,
   blockBeforeStart |-> FALSE, afterStop |-> 0,
   pings |-> 0, afterStart |-> FALSE, pingMisplaced |-> FALSE, anyGood |-> FALSE,
   sawToolUse |-> FALSE, badStop |-> FALSE, openKind |-> "", sigBefore |-> -1,
   sigInBlock |-> 0, stopNoSig |-> FALSE, sigOnOther |-> FALSE,
   thinkingClosed |-> FALSE, lastError |-> FALSE, lastArgs |-> <<>>,
   lastPrompt |-> -1, lastCand |-> -1]

CountOf(seq, x) == Cardinality({i \in 1..Len(seq) : seq[i] = x})

IsBlockFrame(f) ==
  f.event \in {"content_block_start", "content_block_delta", "content_block_stop"}

IsSignatureDelta(f) == f.event = "content_block_delta" /\ f.kind = "signature_delta"

Observe(m, f) ==
  LET start == f.event = "content_block_start"
      stop == f.event = "content_block_stop"
      m0 == [m EXCEPT !.n = @ + 1,
                      !.first = IF m.n = 0 THEN f.event ELSE @,
                      !.afterStop = IF m.msgStops > 0 THEN @ + 1 ELSE @,
                      !.blockBeforeStart = @ \/ (IsBlockFrame(f) /\ m.msgStarts = 0),
                      !.pings = IF f.event = "ping" THEN @ + 1 ELSE @,
                      !.afterStart = f.event = "message_start",
                      !.pingMisplaced = \/ @
                                        \/ (f.event = "ping" /\ ~m.afterStart)
                                        \/ (m.afterStart /\ f.event # "ping"),
                      !.sawToolUse = @ \/ (start /\ f.kind = "tool_use"),
                      !.badStop = \/ @
                                  \/ /\ f.event = "message_delta"
                                     /\ f.kind # (IF m.sawToolUse THEN "tool_use"
                                                  ELSE "end_turn"),
                      !.openKind = IF start THEN f.kind ELSE IF stop THEN "" ELSE @,
                      !.sigBefore = IF IsSignatureDelta(f) THEN f.index ELSE -1,
                      !.sigInBlock = IF start THEN 0
                                     ELSE IF IsSignatureDelta(f) THEN @ + 1 ELSE @,
                      !.stopNoSig = \/ @
                                    \/ /\ stop
                                       /\ m.openKind = "thinking"
                                       /\ ~(m.sigBefore = f.index /\ m.sigInBlock = 1),
                      !.sigOnOther = \/ @
                                     \/ /\ IsSignatureDelta(f)
                                        /\ (m.openKind # "thinking" \/ f.index \notin m.open),
                      !.thinkingClosed = @ \/ (stop /\ m.openKind = "thinking")]
  IN CASE f.event = "content_block_start" ->
            [m0 EXCEPT !.open = @ \cup {f.index},
                       !.maxOpen = IF Cardinality(m.open \cup {f.index}) > @
                                   THEN Cardinality(m.open \cup {f.index}) ELSE @,
                       !.starts = Append(@, f.index)]
       [] f.event = "content_block_delta" ->
            [m0 EXCEPT !.deltaStarts = @ \cup {<<f.index, CountOf(m.starts, f.index)>>},
                       !.deltaOpen = @ \cup {f.index}]
       [] f.event = "content_block_stop" ->
            [m0 EXCEPT !.open = @ \ {f.index},
                       !.deltaTwice = @ \cup (m.deltaOnce \cap {f.index}),
                       !.deltaOnce = @ \cup (m.deltaOpen \cap {f.index}),
                       !.deltaOpen = @ \ {f.index}]
       [] f.event = "message_start" -> [m0 EXCEPT !.msgStarts = @ + 1]
       [] f.event = "message_stop" -> [m0 EXCEPT !.msgStops = @ + 1]
       [] OTHER -> m0

RECURSIVE ObserveAll(_, _)
ObserveAll(m, fs) ==
  IF fs = <<>> THEN m ELSE ObserveAll(Observe(m, Head(fs)), Tail(fs))

RECURSIVE ArgsOfParts(_)
ArgsOfParts(parts) ==
  IF parts = <<>> THEN <<>>
  ELSE (IF Head(parts).functionCall THEN <<Head(parts).args>> ELSE <<>>)
       \o ArgsOfParts(Tail(parts))

RECURSIVE ArgsOfCandidates(_)
ArgsOfCandidates(cands) ==
  IF cands = <<>> THEN <<>>
  ELSE ArgsOfParts(Head(cands).parts) \o ArgsOfCandidates(Tail(cands))

\* what the caller of processChunk knows about the chunk it passed
NoteChunk(m, chunk) ==
  [m EXCEPT !.anyGood = @ \/ ~chunk.error,
            !.lastError = chunk.error,
            !.lastArgs = IF chunk.error THEN <<>> ELSE ArgsOfCandidates(chunk.candidates)]

\* what the caller knows about the usage it passed
NoteUsage(m, chunk) ==
  [m EXCEPT !.lastPrompt = IF ~chunk.error /\ chunk.usage.has THEN chunk.usage.prompt ELSE @,
            !.lastCand = IF ~chunk.error /\ chunk.usage.has THEN chunk.usage.cand ELSE @]

\* translator.processChunk(chunk)
ProcessChunk ==
  /\ nChunks < MaxChunks
  /\ \E chunk \in Chunks :
       LET r == ProcessChunkOp(tr, chunk)
       IN /\ tr' = r.st
          /\ out' = r.ev
          /\ mon' = NoteChunk(ObserveAll(mon, r.ev), chunk)
  /\ nChunks' = nChunks + 1
  /\ UNCHANGED notStreamVars

StreamNext == ProcessChunk

\* translator.processChunk(chunk) on a chunk of several parts
ProcessCallChunk ==
  /\ nChunks < MaxChunks
  /\ \E chunk \in CallChunks :
       LET r == ProcessChunkOp(tr, chunk)
       IN /\ tr' = r.st
          /\ out' = r.ev
          /\ mon' = NoteChunk(ObserveAll(mon, r.ev), chunk)
  /\ nChunks' = nChunks + 1
  /\ UNCHANGED notStreamVars

\* translator.processChunk(chunk) on a chunk with or without usageMetadata
ProcessUsageChunk ==
  /\ nChunks < MaxChunks
  /\ \E chunk \in UsageChunks :
       LET r == ProcessChunkOp(tr, chunk)
       IN /\ tr' = r.st
          /\ out' = r.ev
          /\ mon' = NoteUsage(NoteChunk(ObserveAll(mon, r.ev), chunk), chunk)
  /\ nChunks' = nChunks + 1
  /\ UNCHANGED notStreamVars

UsageNext == ProcessUsageChunk

\* any first chunk, then a chunk of several parts
CallsNext ==
  \/ nChunks = 0 /\ ProcessChunk
  \/ nChunks = 1 /\ ProcessCallChunk

StreamFinished == out # <<>> /\ out[Len(out)].event = "message_stop"

\* C2: in the concatenation of the returned frames, every content_block_delta
\* with index i is preceded by exactly one content_block_start with index i
\* and followed by exactly one content_block_stop with index i (never by two,
\* and by one once the stream has finished), and the indices of the started
\* blocks are strictly increasing.
C2_BlockDiscipline ==
  /\ \A d \in mon.deltaStarts : d[2] = 1
  /\ mon.deltaTwice = {}
  /\ (StreamFinished => mon.deltaOpen = {})
  /\ \A i, j \in 1..Len(mon.starts) : i < j => mon.starts[i] < mon.starts[j]

\* C3: at every point at most one content block is open, and the indices of
\* the successive content_block_start frames are 0, 1, 2, ...: no index is
\* used for two blocks.
C3_OneOpenBlockCounter ==
  /\ mon.maxOpen <= 1
  /\ \A k \in 1..Len(mon.starts) : mon.starts[k] = k - 1

\* C4: message_start comes before every content_block_* frame and is the
\* first frame (an error frame aside), message_stop is emitted at most once
\* and no frame is emitted after it.
C4_StartFirstStopLast ==
  /\ mon.first \in {"", "message_start", "error"}
  /\ ~mon.blockBeforeStart
  /\ mon.msgStops <= 1
  /\ mon.afterStop = 0

\* C28 (as stated): once a chunk has been processed, message_start and ping
\* have each been emitted exactly once (so by the first chunk), and ping is
\* the frame right after message_start.
C28_AsStated ==
  nChunks >= 1
  => /\ mon.msgStarts = 1
     /\ mon.pings = 1
     /\ ~mon.pingMisplaced
     /\ ~mon.afterStart

\* C28 (amended): message_start and ping have each been emitted exactly once
\* as soon as a chunk without error has been processed, and not at all before
\* (a chunk with an error returns the error frame only); ping is the frame
\* right after message_start.
C28_PreludeOnce ==
  /\ mon.msgStarts = (IF mon.anyGood THEN 1 ELSE 0)
  /\ mon.pings = mon.msgStarts
  /\ ~mon.pingMisplaced
  /\ ~mon.afterStart

\* C28 witness: an error chunk came first, the second chunk emitted the prelude
C28_Witness ==
  /\ nChunks = 2
  /\ mon.first = "error"
  /\ Len(out) >= 2
  /\ out[1].event = "message_start"
  /\ out[2].event = "ping"

\* C29: every message_delta carries stop_reason "tool_use" when a tool_use
\* block (one per functionCall part processed) was emitted before it, in this
\* chunk or an earlier one, and "end_turn" otherwise.
C29_StopReason == ~mon.badStop

\* C29 witness: a finishReason in a chunk after the one with the functionCall
C29_Witness ==
  /\ nChunks = 2
  /\ mon.sawToolUse
  /\ \E i \in 1..Len(out) : out[i].event = "message_delta" /\ out[i].kind = "tool_use"
  /\ \A i \in 1..Len(out) : out[i].event # "content_block_start"

\* C30: every content_block_stop of a thinking block comes right after
\* exactly one signature_delta of the same index, whichever of a functionCall
\* part, a text part or a finishReason closes the block; a signature_delta
\* comes only while a thinking block of its index is open.
C30_SignatureBeforeStop == ~mon.stopNoSig /\ ~mon.sigOnOther

\* C30 witness: a functionCall part closes the thinking block of an earlier chunk
C30_Witness ==
  /\ mon.thinkingClosed
  /\ Len(out) >= 3
  /\ IsSignatureDelta(out[1])
  /\ out[2].event = "content_block_stop"
  /\ out[2].index = out[1].index
  /\ out[3].event = "content_block_start"
  /\ out[3].kind = "tool_use"

\* C32: a processChunk call on a chunk with its error field set returns the
\* single frame error/api_error and leaves every field of the translator as
\* it was.
C32_ErrorLeavesState ==
  [][(nChunks' = nChunks + 1 /\ mon'.lastError)
     => (tr' = tr /\ out' = <<Frame("error", -1, "api_error", 0)>>)]_vars

\* C32 witness: an error chunk with usage and a candidate, processed while a
\* block is open
C32_Witness ==
  /\ mon.lastError
  /\ tr.started
  /\ tr.activeBlockType # "null"
  /\ out = <<Frame("error", -1, "api_error", 0)>>

\* the count a counter holds after the supplied values: 0 before the first
SuppliedOrZero(n) == IF n < 0 THEN 0 ELSE n

\* C33: the token counters equal the promptTokenCount and candidatesTokenCount
\* of the most recent chunk that supplied them, also when the value is 0, and
\* every message_delta reports that output token count.
C33_LastSeenWins ==
  /\ tr.inputTokens = SuppliedOrZero(mon.lastPrompt)
  /\ tr.outputTokens = SuppliedOrZero(mon.lastCand)
  /\ \A i \in 1..Len(out) :
       out[i].event = "message_delta" => out[i].tokens = SuppliedOrZero(mon.lastCand)

\* positions of the tool_use content_block_start frames of the last call
ToolStarts ==
  {p \in 1..Len(out) : out[p].event = "content_block_start" /\ out[p].kind = "tool_use"}

\* the p-th tool_use block of the last call, counted from 1
ToolRank(p) == Cardinality({q \in ToolStarts : q <= p})

\* each functionCall part of the last chunk gave three frames of one index:
\* start with input {}, one input_json_delta with the JSON of its args, stop;
\* the block before it was stopped and no block is open after it
ToolBlocksWellFormed ==
  /\ Cardinality(ToolStarts) = Len(mon.lastArgs)
  /\ \A p \in ToolStarts :
       /\ out[p].json = "{}"
       /\ p + 2 <= Len(out)
       /\ out[p + 1].event = "content_block_delta"
       /\ out[p + 1].kind = "input_json_delta"
       /\ out[p + 1].index = out[p].index
       /\ out[p + 1].json = InputJson(mon.lastArgs[ToolRank(p)])
       /\ out[p + 2].event = "content_block_stop"
       /\ out[p + 2].index = out[p].index
       /\ p > 1 => out[p - 1].event \in {"content_block_stop", "ping", "message_stop"}
       /\ p + 3 <= Len(out) => out[p + 3].event \in {"content_block_start", "message_delta"}
       /\ p + 2 = Len(out) => (mon.open = {} /\ tr.activeBlockType = "null")
  /\ mon.maxOpen <= 1

ModelChars == {"a", "b"}
ModelNames == SeqsUpTo(ModelChars, MaxModelLen)
UrlTokens == {"/v1/messages", "/v1/models", "?", "q"}
Urls == SeqsUpTo(UrlTokens, MaxUrlLen) \ {<<>>}
Methods == {"POST", "GET"}

\* Outcome of JSON.parse(rawBody.toString()) and the fields handleRequest reads.
\*   json = "invalid" : JSON.parse throws
\*   json = "null"    : the JSON value null (reading body.model throws a TypeError)
\*   json = "object"  : an object; model is absent, a string, or a number
RouterBodies ==
  {[json |-> "invalid", modelKind |-> "absent", model |-> <<>>, stream |-> FALSE],
   [json |-> "null", modelKind |-> "absent", model |-> <<>>, stream |-> FALSE]}
  \cup [json : {"object"}, modelKind : {"absent", "number"}, model : {<<>>}, stream : BOOLEAN]
  \cup [json : {"object"}, modelKind : {"string"}, model : ModelNames, stream : BOOLEAN]

RouterRequests == [method : Methods, url : Urls, body : RouterBodies]

\* A substring match in place of the prefix match (String.prototype.includes).
StartsWithSubstring(s, p) ==
  \E i \in 0..Len(s) : i + Len(p) <= Len(s) /\ SubSeq(s, i + 1, i + Len(p)) = p
\* String.prototype.startsWith
StartsWith(s, p) == Len(p) <= Len(s) /\ SubSeq(s, 1, Len(p)) = p

\* the whole URL in place of req.url?.split('?')[0]
UrlWithQuery(url) == url

\* req.url?.split('?')[0]
UrlPath(url) ==
  LET q == IndexOf(url, "?", 1)
  IN IF q = 0 THEN url ELSE SubSeq(url, 1, q - 1)

\* const model = body.model || ''
BodyModel(body) == IF body.modelKind = "string" THEN body.model ELSE <<>>

\* What the try block of the 'end' handler does for a POST /v1/messages:
\* "throw" when JSON.parse or a property access raises (caught at line 84).
RouterTry(body, source) ==
  IF body.json = "invalid" \/ body.json = "null" THEN "throw"
  ELSE IF body.modelKind = "number" THEN "throw"   \* model.startsWith is not a function
  ELSE IF StartsWith(BodyModel(body), source)
       THEN (IF body.stream THEN "stream" ELSE "unary")
       ELSE "passthrough"

\* The handler calls made by the 'end' handler, in order.
RouterDispatch(req, source) ==
  IF req.method = "POST" /\ UrlPath(req.url) = <<"/v1/messages">>
  THEN LET t == RouterTry(req.body, source)
       IN CASE t = "stream" -> <<[fn |-> "handleProxyStreaming", retryFn |-> FALSE]>>
            [] t = "unary" -> <<[fn |-> "handleProxyNonStreaming", retryFn |-> FALSE]>>
            [] t = "passthrough" -> <<[fn |-> "forwardToAnthropic", retryFn |-> TRUE]>>
            [] OTHER -> <<[fn |-> "forwardToAnthropic", retryFn |-> FALSE]>>
  ELSE <<[fn |-> "forwardToAnthropic", retryFn |-> FALSE]>>

MAX_BODY_SIZE == 10 * 1024 * 1024

\* chunk.length of the 'data' events: half of the limit, and one byte more
BodyChunkSizes == {5 * 1024 * 1024, 5 * 1024 * 1024 + 1}

\* bodySize >= MAX_BODY_SIZE in place of the test of line 27
ReachesBodyLimit(size) == size >= MAX_BODY_SIZE
\* bodySize > MAX_BODY_SIZE
ExceedsBodyLimit(size) == size > MAX_BODY_SIZE

\* rt.req is the request as the 'end' handler reads it; bodySize is the
\* counter of line 23, stored the total length of bodyChunks, passed the
\* lengths of the buffers handed to forwardToAnthropic.
RtIdle == [phase |-> "idle", req |-> [method |-> "GET", url |-> <<"q">>,
                                       body |-> [json |-> "invalid", modelKind |-> "absent",
                                                 model |-> <<>>, stream |-> FALSE]],
           bodySize |-> 0, stored |-> 0, passed |-> <<>>, res |-> ClInit]

\* A request arrives: handleRequest registers its listeners.
RouterRequest ==
  /\ rt.phase = "idle"
  /\ rt' = [rt EXCEPT !.phase = "reading"]
  /\ rtCalls' = <<>>
  /\ UNCHANGED <<mapping, notRouterVars>>

\* the 413 answer of lines 28-34
TooLarge(c) ==
  IF ~c.headersSent THEN EndWith(WriteHead(c, 413, ""), "api_error") ELSE c

\* req.on('data')
RouterData ==
  /\ rt.phase = "reading"
  /\ \E n \in BodyChunkSizes :
       IF ExceedsBodyLimit(rt.bodySize + n)
       THEN rt' = [rt EXCEPT !.bodySize = @ + n, !.res = TooLarge(@),
                             !.phase = "aborted"]
       ELSE rt' = [rt EXCEPT !.bodySize = @ + n, !.stored = @ + n]
  /\ UNCHANGED <<rtCalls, mapping, notRouterVars>>

\* an empty buffer in place of rawBody
PassedEmpty(calls, stored) ==
  [i \in 1..Len(SelectSeq(calls, LAMBDA c : c.fn = "forwardToAnthropic")) |-> 0]

\* rawBody = Buffer.concat(bodyChunks) as passed by the forwardToAnthropic calls
PassedBodies(calls, stored) ==
  [i \in 1..Len(SelectSeq(calls, LAMBDA c : c.fn = "forwardToAnthropic")) |-> stored]

\* req.on('end')
RouterEnd ==
  /\ rt.phase = "reading"
  /\ \E r \in RouterRequests :
       LET calls == RouterDispatch(r, mapping.sourceModel)
       IN /\ rtCalls' = rtCalls \o calls
          /\ rt' = [rt EXCEPT !.phase = "done", !.req = r,
                              !.passed = PassedBodies(calls, rt.stored)]
  /\ UNCHANGED <<mapping, notRouterVars>>

\* req.on('error') (lines 96-107): the client aborts the upload; after
\* req.destroy() the event may also be raised.
RouterReqError ==
  /\ rt.phase \in {"reading", "aborted"}
  /\ rt' = [rt EXCEPT !.phase = "failed",
                      !.res = EndWith(IF ~@.headersSent THEN WriteHead(@, 500, "") ELSE @,
                                      "api_error")]
  /\ UNCHANGED <<rtCalls, mapping, notRouterVars>>

RouterNext == RouterRequest \/ RouterData \/ RouterEnd \/ RouterReqError

\* p is a prefix of s: s is p followed by some text.
IsPrefixOf(p, s) == \E k \in 0..Len(s) : SubSeq(s, 1, k) = p

RtIsMessagesPost ==
  /\ rt.phase = "done"
  /\ rt.req.method = "POST"
  /\ \E k \in 1..Len(rt.req.url) :
       /\ SubSeq(rt.req.url, 1, k) = <<"/v1/messages">>
       /\ (k = Len(rt.req.url) \/ rt.req.url[k + 1] = "?")
  /\ rt.req.body.json # "invalid"

RtClaimedModel ==
  IF rt.req.body.modelKind = "string" THEN rt.req.body.model ELSE <<>>

C12_BodyLimit ==
  /\ rt.bodySize > MAX_BODY_SIZE <=> rt.phase = "aborted" \/ (rt.phase = "failed" /\ rt.res.status = 413)
  /\ rt.bodySize > MAX_BODY_SIZE =>
       /\ rt.stored <= MAX_BODY_SIZE
       /\ rt.res.status = 413 /\ rt.res.errType = "api_error" /\ rt.res.ended
       /\ rtCalls = <<>>
  /\ rt.phase = "done" => (rt.bodySize <= MAX_BODY_SIZE /\ Len(rtCalls) = 1)

\* A body of exactly 10 MiB had been accepted when one more chunk was
\* answered 413.
C12_Witness ==
  /\ rt.phase = "aborted"
  /\ rt.stored = MAX_BODY_SIZE
  /\ rt.res.status = 413
  /\ rtCalls = <<>>

\* The URL is /v1/messages, alone or followed by a query string.
RtPathIsMessages ==
  /\ rt.req.url[1] = "/v1/messages"
  /\ Len(rt.req.url) > 1 => rt.req.url[2] = "?"

PassthroughOnce == <<[fn |-> "forwardToAnthropic", retryFn |-> FALSE]>>

\* C13: a POST /v1/messages whose body is not valid JSON gets no response
\* written by the router; forwardToAnthropic is called exactly once, with
\* the bytes received and no retry function.
C13_MalformedPassthrough ==
  (/\ rt.phase = "done"
   /\ rt.req.method = "POST"
   /\ RtPathIsMessages
   /\ rt.req.body.json = "invalid")
  => /\ rtCalls = PassthroughOnce
     /\ rt.passed = <<rt.bodySize>>
     /\ ~rt.res.headersSent /\ ~rt.res.ended

\* A malformed body of 5 MiB + 1 bytes sent to /v1/messages?... was passed on.
C13_Witness ==
  /\ rt.phase = "done"
  /\ rt.req.method = "POST"
  /\ rt.req.url = <<"/v1/messages", "?", "q">>
  /\ rt.req.body.json = "invalid"
  /\ rt.bodySize = 5 * 1024 * 1024 + 1
  /\ rt.passed = <<5 * 1024 * 1024 + 1>>
  /\ rtCalls = PassthroughOnce

\* The calls C1 prescribes for a POST to /v1/messages with this body.
MessagesPostCalls(body) ==
  IF body.json # "object" \/ body.modelKind = "number" THEN PassthroughOnce
  ELSE IF IsPrefixOf(mapping.sourceModel, IF body.modelKind = "string" THEN body.model ELSE <<>>)
  THEN <<[fn |-> IF body.stream THEN "handleProxyStreaming" ELSE "handleProxyNonStreaming",
          retryFn |-> FALSE]>>
  ELSE <<[fn |-> "forwardToAnthropic", retryFn |-> TRUE]>>

\* C14: a request that is not a POST to /v1/messages (query string apart) is
\* passed through without retry function whatever its body; a POST to
\* /v1/messages with a query string is handled like one without.
C14_OnlyMessagesPost ==
  rt.phase = "done" =>
    IF rt.req.method = "POST" /\ RtPathIsMessages
    THEN rtCalls = MessagesPostCalls(rt.req.body)
    ELSE rtCalls = PassthroughOnce

\* A GET /v1/messages whose body names the mapped model was passed through.
C14_Witness ==
  /\ rt.phase = "done"
  /\ rt.req.method = "GET"
  /\ rt.req.url = <<"/v1/messages">>
  /\ rt.req.body.modelKind = "string"
  /\ rt.req.body.model = mapping.sourceModel
  /\ rt.req.body.stream
  /\ rtCalls = PassthroughOnce

(***************************************************************************)
(* CLIProxyAPI intercept handlers (src/src/providers/proxy.ts) and the     *)
(* router's handler-rejection path (src/src/router.ts, lines 61-73).       *)
(* One client request; the upstream and the client are the environment.    *)
(***************************************************************************)
MAX_RETRIES == 3
DEFAULT_RETRY_DELAY == 10000

\* The Retry-After header of a 429: absent, not a number, or a number of seconds.
RetryHeaders ==
  {[kind |-> "absent", n |-> 0], [kind |-> "text", n |-> 0],
   [kind |-> "number", n |-> 0], [kind |-> "number", n |-> 2]}
\* The first "(reset|retry) after <n>s" match in the body: none, or <n>.
RetryBodies == {[matched |-> FALSE, n |-> 0], [matched |-> TRUE, n |-> 3]}

NoRetryHeader == [kind |-> "absent", n |-> 0]
NoRetryBody == [matched |-> FALSE, n |-> 0]

\* What the upstream can answer to one request.
UpstreamResponses ==
  [status : {429}, header : RetryHeaders, body : RetryBodies, jsonOk : {TRUE}]
  \cup [status : {200}, header : {NoRetryHeader}, body : {NoRetryBody}, jsonOk : BOOLEAN]
  \cup [status : {401, 500}, header : {NoRetryHeader}, body : {NoRetryBody}, jsonOk : {TRUE}]

NoResponse == [status |-> 0, header |-> NoRetryHeader, body |-> NoRetryBody, jsonOk |-> TRUE]

\* parseRetryDelay without its body fallback
ParseRetryDelayHeaderOnly(body, header) ==
  IF header.kind = "number" /\ header.n > 0 THEN header.n * 1000
  ELSE DEFAULT_RETRY_DELAY

\* parseRetryDelay(body, retryAfterHeader), in ms
ParseRetryDelay(body, header) ==
  IF header.kind = "number" /\ header.n > 0 THEN header.n * 1000
  ELSE IF body.matched THEN body.n * 1000
  ELSE DEFAULT_RETRY_DELAY

PxIdle ==
  [mode |-> "none", pc |-> "idle", attempt |-> 0, calls |-> 0, outcomes |-> <<>>,
   sleeps |-> <<>>, cur |-> NoResponse, destroyed |-> FALSE, settled |-> "pending",
   data |-> 0, callsAfterClose |-> 0, paused |-> FALSE]

\* sendError without the test of line 120
SendErrorUnguarded(c, status, errType) ==
  EndWith(WriteHead(c, status, ""), errType)

\* sendError(res, statusCode, errorType, message)
SendError(c, status, errType) ==
  IF c.headersSent THEN c
  ELSE EndWith(WriteHead(c, status, ""), errType)

\* router.ts 61-73: handler.catch(...)
RouterCatch(c) ==
  LET c1 == IF ~c.headersSent THEN WriteHead(c, 502, "") ELSE c
  IN IF Writable(c1) THEN EndWith(c1, "api_error") ELSE c1

\* doStreamingRequest / doRequest: a new upstream request is sent
IssueRequest(p, c) ==
  [p EXCEPT !.pc = "await", !.calls = @ + 1, !.destroyed = FALSE, !.cur = NoResponse,
            !.callsAfterClose = @ + Late(c)]

\* handleProxyStreaming / handleProxyNonStreaming is called: first attempt
PxStart ==
  /\ px.pc = "idle"
  /\ \E mode \in {"stream", "unary"} :
       px' = IssueRequest([px EXCEPT !.mode = mode, !.attempt = 0], cl)
  /\ UNCHANGED <<cl, notProxyVars>>

\* The upstream response (status line and headers) arrives.
PxResponse ==
  /\ px.pc = "await"
  /\ ~px.destroyed
  /\ \E r \in UpstreamResponses :
       IF px.mode = "unary"
       THEN /\ px' = [px EXCEPT !.pc = "bodyUnary", !.cur = r]
            /\ UNCHANGED cl
       ELSE IF r.status = 429
       THEN /\ px' = [px EXCEPT !.pc = "body429", !.cur = r]
            /\ UNCHANGED cl
       ELSE IF r.status # 200
       THEN /\ px' = [px EXCEPT !.pc = "bodyErr", !.cur = r]
            /\ UNCHANGED cl
       ELSE /\ px' = [px EXCEPT !.pc = "piping", !.cur = r, !.settled = "resolved",
                                !.outcomes = Append(@, 200)]
            /\ cl' = WriteHead(cl, 200, "cliproxyapi")
  /\ UNCHANGED notProxyVars

\* proxyRes.on('data') of the streamed 200 response
\* (lines 189-196): not delivered while proxyRes is paused
PxData ==
  /\ px.pc = "piping"
  /\ ~px.paused
  /\ px.data < MaxData
  /\ \E full \in BOOLEAN :
       IF Writable(cl)
       THEN /\ cl' = WriteChunk(cl, full)
            /\ px' = [px EXCEPT !.data = @ + 1, !.paused = cl'.needDrain]
       ELSE /\ cl' = cl
            /\ px' = [px EXCEPT !.data = @ + 1]
  /\ UNCHANGED notProxyVars

\* clientRes.once('drain', () => proxyRes.resume()) (line 194)
PxDrain ==
  /\ px.paused
  /\ cl.needDrain
  /\ ~cl.closed
  /\ cl' = Drained(cl)
  /\ px' = [px EXCEPT !.paused = FALSE]
  /\ UNCHANGED notProxyVars

\* Streaming: the loop continues after resolve('retry') (lines 146, 217-222).
StreamAfterRetry(p, c) ==
  IF p.attempt + 1 <= MAX_RETRIES
  THEN [p |-> IssueRequest([p EXCEPT !.attempt = @ + 1], c), c |-> c]
  ELSE [p |-> [p EXCEPT !.attempt = @ + 1, !.pc = "done", !.settled = "resolved"],
        c |-> SendError(c, 429, "rate_limit_error")]

\* Unary: what follows `await doRequest(...)` once the response has ended
\* (lines 238-271).
UnaryAfterResponse(p, c) ==
  LET p1 == [p EXCEPT !.outcomes = Append(@, p.cur.status)]
  IN IF p.cur.status = 429
     THEN IF p.attempt >= MAX_RETRIES
          THEN [p |-> [p1 EXCEPT !.pc = "done", !.settled = "resolved"],
                c |-> SendError(c, 429, "rate_limit_error")]
          ELSE [p |-> [p1 EXCEPT !.pc = "sleeping",
                                 !.sleeps = Append(@, ParseRetryDelay(p.cur.body, p.cur.header))],
                c |-> c]
     ELSE IF p.cur.status # 200
     THEN [p |-> [p1 EXCEPT !.pc = "done", !.settled = "resolved"],
           c |-> SendError(c, p.cur.status, "api_error")]
     ELSE [p |-> [p1 EXCEPT !.pc = "done", !.settled = "resolved"],
           c |-> IF p.cur.jsonOk
                 THEN EndWith(WriteHead(c, 200, "cliproxyapi"), "")
                 ELSE SendError(c, 502, "api_error")]

\* Streaming: proxyRes.on('end') in the 429 branch (lines 160-165).
Stream429End(p) ==
  [p EXCEPT !.pc = "sleeping", !.outcomes = Append(@, 429),
            !.sleeps = Append(@, ParseRetryDelay(p.cur.body, p.cur.header))]

\* The upstream response ends ('end' event).
PxEnd ==
  /\ px.pc \in {"body429", "bodyErr", "piping", "bodyUnary"}
  /\ ~px.destroyed
  /\ ~px.paused
  /\ CASE px.pc = "body429" ->
            /\ px' = Stream429End(px)
            /\ UNCHANGED cl
       [] px.pc = "bodyErr" ->
            /\ px' = [px EXCEPT !.pc = "done", !.settled = "resolved",
                                !.outcomes = Append(@, px.cur.status)]
            /\ cl' = SendError(cl, px.cur.status, "api_error")
       [] px.pc = "piping" ->
            /\ px' = [px EXCEPT !.pc = "done"]
            /\ cl' = IF Writable(cl) THEN EndWith(cl, "") ELSE cl
       [] OTHER ->
            LET r == UnaryAfterResponse(px, cl)
            IN px' = r.p /\ cl' = r.c
  /\ UNCHANGED notProxyVars

\* The backoff timer fires (setTimeout callback).
PxTimer ==
  /\ px.pc = "sleeping"
  /\ IF px.mode = "stream"
     THEN LET r == StreamAfterRetry(px, cl)
          IN px' = r.p /\ cl' = r.c
     ELSE /\ px' = IssueRequest([px EXCEPT !.attempt = @ + 1], cl)
          /\ UNCHANGED cl
  /\ UNCHANGED notProxyVars

\* The request 'error' handler: onError (lines 207-211) when streaming, the
\* rejection of doRequest and the router's catch when unary.
OnRequestError(p, c) ==
  IF p.mode = "stream"
  THEN [p |-> [p EXCEPT !.pc = "done", !.settled = "resolved",
                        !.outcomes = IF p.pc = "piping" THEN @ ELSE Append(@, 0)],
        c |-> LET c1 == SendError(c, 502, "api_error")
              IN IF p.pc = "piping" /\ Writable(c1) THEN EndWith(c1, "") ELSE c1]
  ELSE [p |-> [p EXCEPT !.pc = "done", !.settled = "rejected", !.outcomes = Append(@, 0)],
        c |-> RouterCatch(c)]

\* The upstream request fails before any response: connection error, or the
\* 'socket hang up' of a request destroyed by the close listener.
PxRequestError ==
  /\ px.pc = "await"
  /\ LET r == OnRequestError(px, cl)
     IN px' = [r.p EXCEPT !.destroyed = TRUE] /\ cl' = r.c
  /\ UNCHANGED notProxyVars

\* The request times out: req.destroy(new Error('Request timeout ...')),
\* which raises 'error' on the request and aborts a response in progress.
PxTimeout ==
  /\ px.pc \in {"await", "body429", "bodyErr", "piping", "bodyUnary"}
  /\ ~px.destroyed
  /\ LET r == OnRequestError(px, cl)
     IN px' = [r.p EXCEPT !.destroyed = TRUE] /\ cl' = r.c
  /\ UNCHANGED notProxyVars

\* The upstream closes the connection in the middle of the response body.
\* Only the relayed 200 response has an 'error' listener (lines 200-203);
\* elsewhere no listener runs and 'end' never comes.
PxResponseAborted ==
  /\ px.pc \in {"body429", "bodyErr", "piping", "bodyUnary"}
  /\ ~px.destroyed
  /\ IF px.pc = "piping"
     THEN /\ px' = [px EXCEPT !.pc = "done", !.destroyed = TRUE]
          /\ cl' = IF Writable(cl) THEN EndWith(cl, "") ELSE cl
     ELSE /\ px' = [px EXCEPT !.pc = "stalled", !.destroyed = TRUE]
          /\ UNCHANGED cl
  /\ UNCHANGED notProxyVars

\* The client closes its connection.  Streaming: the close listener
\* (lines 142-144) destroys the active request; unary: no listener exists.
PxClientClose ==
  /\ px.pc \notin {"idle", "done", "stalled"}
  /\ ~cl.closed
  /\ cl' = [cl EXCEPT !.closed = TRUE]
  /\ px' = IF px.mode = "stream" /\ px.pc \in {"await", "body429", "bodyErr", "piping"}
              /\ ~px.destroyed
           THEN [px EXCEPT !.destroyed = TRUE,
                           !.pc = IF px.pc = "await" THEN "await"
                                  ELSE IF px.pc = "piping" THEN "done" ELSE "stalled"]
           ELSE px
  /\ UNCHANGED notProxyVars

ProxyNext ==
  \/ PxStart \/ PxResponse \/ PxData \/ PxDrain \/ PxEnd \/ PxTimer
  \/ PxRequestError \/ PxTimeout \/ PxResponseAborted \/ PxClientClose

(***************************************************************************)
(* Claims about the intercept handlers.                                    *)
(***************************************************************************)
\* The delay a 429 response asks for: the Retry-After header when it is a
\* positive number of seconds, else the body's match, else 10 s.
RequestedDelay(r) ==
  CASE r.header.kind = "number" /\ r.header.n > 0 -> r.header.n * 1000
    [] ~(r.header.kind = "number" /\ r.header.n > 0) /\ r.body.matched -> r.body.n * 1000
    [] OTHER -> 10000

PxInFlight == px.pc \in {"await", "body429", "bodyErr", "piping", "bodyUnary"}

\* Upstream requests whose outcome is known, plus the one in flight.
PxAccounted ==
  Len(px.outcomes)
  + (IF px.pc \in {"await", "body429", "bodyErr", "bodyUnary", "stalled"} THEN 1 ELSE 0)

\* At most MAX_RETRIES retries; every retry follows a 429 and a sleep of the
\* delay that 429 asked for; after 4 answers of 429 the client gets
\* 429 rate_limit_error.
C5_RetryDiscipline ==
  /\ px.calls <= MAX_RETRIES + 1
  /\ px.calls = PxAccounted
  /\ \A i \in 1..(px.calls - 1) : px.outcomes[i] = 429
  /\ px.calls <= Len(px.sleeps) + 1
  /\ px.pc = "sleeping" =>
       /\ px.cur.status = 429
       /\ px.sleeps[Len(px.sleeps)] = RequestedDelay(px.cur)
  /\ (/\ px.pc = "done"
      /\ Len(px.outcomes) = MAX_RETRIES + 1
      /\ \A i \in 1..Len(px.outcomes) : px.outcomes[i] = 429
      /\ ~cl.closed)
     => (cl.status = 429 /\ cl.errType = "rate_limit_error" /\ cl.ended)

\* An attempt answered 200 is the last upstream request.
C5_OkIsLast ==
  \A i \in 1..Len(px.outcomes) :
    px.outcomes[i] = 200 => (i = Len(px.outcomes) /\ px.calls = i)

PxAnswered200 ==
  /\ px.outcomes # <<>>
  /\ px.outcomes[Len(px.outcomes)] = 200
  /\ ~cl.closed

\* C5 (as stated): a 429 is followed by a sleep of the parsed delay and a
\* retry, at most 3 retries (4 upstream requests); four 429s give the client
\* 429 rate_limit_error; an attempt answered 200 gives the client the normal
\* 200 response and ends the upstream requests.
C5_AsStated ==
  /\ C5_RetryDiscipline
  /\ C5_OkIsLast
  /\ PxAnswered200 => (cl.status = 200 /\ cl.provider = "cliproxyapi")

\* C5 (amended): as above, except that on the unary path the client gets the
\* 200 response only when the upstream body parses as JSON, and
\* 502 api_error when it does not.
C5_RetryAndOutcome ==
  /\ C5_RetryDiscipline
  /\ C5_OkIsLast
  /\ (PxAnswered200 /\ (px.mode = "stream" \/ px.cur.jsonOk))
       => (cl.status = 200 /\ cl.provider = "cliproxyapi")
  /\ (PxAnswered200 /\ px.mode = "unary" /\ ~px.cur.jsonOk)
       => (cl.status = 502 /\ cl.errType = "api_error" /\ cl.ended)

\* Two 429s asking for 3 s each, then a 200 (both paths reach it).
C5_Witness ==
  /\ px.pc = "done"
  /\ px.outcomes = <<429, 429, 200>>
  /\ px.sleeps = <<3000, 3000>>
  /\ px.calls = 3
  /\ cl.status = 200

\* C6: once the client has closed, the upstream request in flight is
\* destroyed and no upstream request is started afterwards.
C6_CloseAborts ==
  cl.closed => (px.callsAfterClose = 0 /\ (PxInFlight => px.destroyed))

\* C7: a request whose first upstream answer is 401 is retried exactly once.
C7_RetryOnceOn401 ==
  (px.pc = "done" /\ px.outcomes # <<>> /\ px.outcomes[1] = 401) => px.calls = 2

\* C15: an upstream answer other than 200, 429 and 401 gives the client
\* 502 api_error, on both handlers.
C15_OtherStatusIs502 ==
  (/\ px.pc = "done"
   /\ px.outcomes # <<>>
   /\ px.outcomes[Len(px.outcomes)] \notin {0, 200, 401, 429}
   /\ ~cl.closed)
  => (cl.status = 502 /\ cl.errType = "api_error")

\* C18: every response head written for an intercepted request carries
\* x-cmm-provider.
C18_ProviderHeader ==
  cl.headersSent => cl.provider = "cliproxyapi"

\* The delay as the header-first rule gives it: the Retry-After value whenever
\* the header is a number, else the body's match, else 10 s.
HeaderFirstDelay(r) ==
  CASE r.header.kind = "number" -> r.header.n * 1000
    [] r.header.kind # "number" /\ r.body.matched -> r.body.n * 1000
    [] OTHER -> DEFAULT_RETRY_DELAY

\* C37: the backoff after a 429 lasts the Retry-After seconds whenever that
\* header is numeric, otherwise the seconds of the body's first
\* "reset after <n>s" / "retry after <n>s" match, otherwise 10 s.
C37_DelayFromHeaderFirst ==
  px.pc = "sleeping" => px.sleeps[Len(px.sleeps)] = HeaderFirstDelay(px.cur)

\* C39: every call of an intercept handler comes to an end: once no upstream
\* event is left to come, the handler's promise has settled and the client
\* response has been ended (or the client itself has gone).
C39_Terminates ==
  px.pc \in {"done", "stalled"} =>
    (px.settled # "pending" /\ (cl.ended \/ cl.closed))

\* C40: a backoff sleep is taken only before a retry: outside a sleep the
\* sleeps taken are one fewer than the upstream requests made, and no sleep
\* follows the 429 of the last allowed attempt, on both paths.
C40_SleepOnlyBeforeRetry ==
  /\ (px.calls > 0 /\ px.pc # "sleeping") => Len(px.sleeps) = px.calls - 1
  /\ px.pc = "sleeping" => px.attempt < MAX_RETRIES

(***************************************************************************)
(* SSEParser (src/src/translator/tools.test.ts, lines 288-346).            *)
(* Text is a sequence of characters.  A JSON object is written "{", its    *)
(* members, "}"; a member is one character: "a" is a short member, "B" a   *)
(* member holding a 3 MiB string.  The prefix 'data: ' is the two          *)
(* characters "data:" and " ".  "i" is the content of a line that is not   *)
(* a data line (event:, id:).                                              *)
(***************************************************************************)
MAX_SSE_BUFFER == 5 * 1024 * 1024

NL == "\n"
DataPrefix == <<"data:", " ">>

Members == {"a", "B"}
JsonObjects == SeqsUpTo(Members, MaxMembers)

\* string.length of one character of the model
CharLength(ch) ==
  CASE ch = "B" -> 3 * 1024 * 1024
    [] ch = "data:" -> 5
    [] OTHER -> 1

RECURSIVE TextLength(_)
TextLength(text) ==
  IF text = <<>> THEN 0 ELSE CharLength(Head(text)) + TextLength(Tail(text))

\* JSON.stringify of an object (no raw newline in its output)
JsonStringify(obj) == <<"{">> \o obj \o <<"}">>

JsonWhitespace == {NL, " "}

RECURSIVE DropWhitespace(_)
DropWhitespace(text) ==
  IF text = <<>> THEN <<>>
  ELSE IF Head(text) \in JsonWhitespace THEN DropWhitespace(Tail(text))
  ELSE <<Head(text)>> \o DropWhitespace(Tail(text))

\* JSON.parse(data): the object, or a SyntaxError
JsonParse(data) ==
  LET t == DropWhitespace(data)
  IN IF /\ Len(t) >= 2
        /\ t[1] = "{"
        /\ t[Len(t)] = "}"
        /\ \A i \in 2..(Len(t) - 1) : t[i] \in Members
     THEN [ok |-> TRUE, value |-> SubSeq(t, 2, Len(t) - 1)]
     ELSE [ok |-> FALSE, value |-> <<>>]

\* Position of the first occurrence of sep in text at or after from; 0 if none.
RECURSIVE FindFrom(_, _, _)
FindFrom(text, sep, from) ==
  IF from + Len(sep) - 1 > Len(text) THEN 0
  ELSE IF SubSeq(text, from, from + Len(sep) - 1) = sep THEN from
  ELSE FindFrom(text, sep, from + 1)

\* String.prototype.split(sep), sep not empty
RECURSIVE Split(_, _)
Split(text, sep) ==
  LET i == FindFrom(text, sep, 1)
  IN IF i = 0 THEN <<text>>
     ELSE <<SubSeq(text, 1, i - 1)>> \o Split(SubSeq(text, i + Len(sep), Len(text)), sep)

\* line.startsWith('data: ')
IsDataLine(line) ==
  Len(line) >= Len(DataPrefix) /\ SubSeq(line, 1, Len(DataPrefix)) = DataPrefix

\* dataLines.join('\n') over the lines of a block
RECURSIVE JoinDataLines(_, _)
JoinDataLines(lines, first) ==
  IF lines = <<>> THEN <<>>
  ELSE IF IsDataLine(Head(lines))
  THEN (IF first THEN <<>> ELSE <<NL>>)
       \o SubSeq(Head(lines), Len(DataPrefix) + 1, Len(Head(lines)))
       \o JoinDataLines(Tail(lines), FALSE)
  ELSE JoinDataLines(Tail(lines), first)

\* parseBlock(block): the parsed object, or null
ParseBlock(block) ==
  LET lines == Split(block, <<NL>>)
  IN IF \E i \in 1..Len(lines) : IsDataLine(lines[i])
     THEN JsonParse(JoinDataLines(lines, TRUE))
     ELSE [ok |-> FALSE, value |-> <<>>]

\* the loop of extractEvents over the complete blocks
RECURSIVE ParseBlocks(_)
ParseBlocks(parts) ==
  IF parts = <<>> THEN <<>>
  ELSE LET parsed == ParseBlock(Head(parts))
       IN (IF parsed.ok THEN <<parsed.value>> ELSE <<>>) \o ParseBlocks(Tail(parts))

\* extractEvents that does not keep the trailing incomplete block
ExtractEventsDroppingRest(buffer) ==
  LET parts == Split(buffer, <<NL, NL>>)
  IN [buffer |-> <<>>,
      events |-> ParseBlocks(SubSeq(parts, 1, Len(parts) - 1)),
      threw |-> FALSE]

\* extractEvents(): the new buffer and the events
ExtractEvents(buffer) ==
  LET parts == Split(buffer, <<NL, NL>>)
  IN [buffer |-> parts[Len(parts)],
      events |-> ParseBlocks(SubSeq(parts, 1, Len(parts) - 1)),
      threw |-> FALSE]

\* feed(chunk)
FeedOp(buffer, chunk) ==
  LET b == buffer \o chunk
  IN IF TextLength(b) > MAX_SSE_BUFFER
     THEN [buffer |-> <<>>, events |-> <<>>, threw |-> TRUE]
     ELSE ExtractEvents(b)

\* One upstream frame: an optional event line, the data line, a blank line.
SseFrame(obj, eventLine) ==
  (IF eventLine THEN <<"i", NL>> ELSE <<>>)
  \o DataPrefix \o JsonStringify(obj) \o <<NL, NL>>

RECURSIVE SseText(_, _)
SseText(events, eventLine) ==
  IF events = <<>> THEN <<>>
  ELSE SseFrame(Head(events), eventLine) \o SseText(Tail(events), eventLine)

\* The upstream text: the frames of the events and, possibly, one more newline
\* after the last blank line.
SseInputs ==
  [events : SeqsUpTo(JsonObjects, MaxEvents), eventLine : BOOLEAN, trailer : {<<>>}]

SseInputsWithTrailer ==
  [events : SeqsUpTo(JsonObjects, MaxEvents), eventLine : BOOLEAN, trailer : {<<>>, <<NL>>}]

UpstreamText(inp) == SseText(inp.events, inp.eventLine) \o inp.trailer

\* flushes: flush() calls made; before, flushed: the buffer before the last
\* flush() and the events it returned
SseRunInit ==
  [pos |-> 0, got |-> <<>>, threw |-> FALSE, cutInJson |-> FALSE, cutInDelimiter |-> FALSE,
   flushes |-> 0, before |-> <<>>, flushed |-> <<>>]

\* buffer.trim() is the empty string
TrimIsEmpty(buffer) == \A i \in 1..Len(buffer) : buffer[i] \in JsonWhitespace

\* flush() that clears the buffer on both branches
FlushOpClearing(buffer) ==
  LET parsed == ParseBlock(buffer)
  IN [buffer |-> <<>>,
      events |-> IF ~TrimIsEmpty(buffer) /\ parsed.ok THEN <<parsed.value>> ELSE <<>>]

\* flush(): the new buffer and the returned events
FlushOp(buffer) ==
  IF ~TrimIsEmpty(buffer)
  THEN LET parsed == ParseBlock(buffer)
       IN [buffer |-> <<>>, events |-> IF parsed.ok THEN <<parsed.value>> ELSE <<>>]
  ELSE [buffer |-> buffer, events |-> <<>>]

\* A chunk boundary after position p falls inside a JSON value.
CutInJson(text, p) ==
  /\ 0 < p /\ p < Len(text)
  /\ text[p] \in {"{"} \cup Members
  /\ text[p + 1] \in {"}"} \cup Members

\* A chunk boundary after position p falls between the two newlines of a
\* delimiter.
CutInDelimiter(text, p) ==
  /\ 0 < p /\ p < Len(text)
  /\ text[p] = NL /\ text[p + 1] = NL

\* The stream hands the parser the next chunk of the text, of any size.
SseFeed ==
  LET text == UpstreamText(sseIn)
  IN /\ sseRun.flushes = 0
     /\ \E n \in 0..(Len(text) - sseRun.pos) :
          LET r == FeedOp(parser.buffer, SubSeq(text, sseRun.pos + 1, sseRun.pos + n))
          IN /\ parser' = [buffer |-> r.buffer]
             /\ sseRun' = [sseRun EXCEPT
                           !.pos = sseRun.pos + n,
                           !.got = sseRun.got \o r.events,
                           !.threw = sseRun.threw \/ r.threw,
                           !.cutInJson = sseRun.cutInJson \/ CutInJson(text, sseRun.pos + n),
                           !.cutInDelimiter =
                             sseRun.cutInDelimiter \/ CutInDelimiter(text, sseRun.pos + n)]
     /\ UNCHANGED <<sseIn, notSseVars>>

\* The stream ends, here or earlier (a cut connection): flush(), once or twice.
SseFlush ==
  /\ sseRun.flushes < 2
  /\ LET r == FlushOp(parser.buffer)
     IN /\ parser' = [buffer |-> r.buffer]
        /\ sseRun' = [sseRun EXCEPT !.flushes = @ + 1, !.before = parser.buffer,
                                    !.flushed = r.events]
  /\ UNCHANGED <<sseIn, notSseVars>>

SseNext == SseFeed

\* feed calls, then flush at the end of the stream
FlushNext == SseFeed \/ SseFlush

(***************************************************************************)
(* Claims about the SSEParser.                                             *)
(***************************************************************************)
\* The number of frames of the text that end at or before position pos.
RECURSIVE FramesEndedBy(_, _, _)
FramesEndedBy(events, eventLine, pos) ==
  IF events = <<>> THEN 0
  ELSE LET n == Len(SseFrame(Head(events), eventLine))
       IN IF n <= pos THEN 1 + FramesEndedBy(Tail(events), eventLine, pos - n) ELSE 0

\* After every feed call, the events returned so far are the events whose
\* frame has been fed completely, in order.
SseRoundTrip ==
  sseRun.got =
    SubSeq(sseIn.events, 1, FramesEndedBy(sseIn.events, sseIn.eventLine, sseRun.pos))

\* C11 (as stated): for every event sequence and every way of cutting the
\* framed text into chunks, the feed calls return exactly the original
\* events, each from the call that completes its block.
C11_AsStated == SseRoundTrip

\* C11 (amended): the same, as long as no feed call has made the buffer
\* longer than MAX_SSE_BUFFER.
C11_RoundTrip == ~sseRun.threw => SseRoundTrip

\* Two events, the text cut inside a JSON value and between the two newlines
\* of a delimiter, all events recovered.
C11_Witness ==
  /\ sseIn.events = <<<<"a">>, <<"a">>>>
  /\ sseRun.cutInJson /\ sseRun.cutInDelimiter
  /\ sseRun.pos = Len(UpstreamText(sseIn))
  /\ parser.buffer = <<>>
  /\ sseRun.got = sseIn.events
  /\ ~sseRun.threw

\* C35: flush() returns what the remaining buffer parses to as one block, at
\* most one event, and leaves the buffer empty whatever it held; a flush on
\* an empty buffer and a second flush in a row return no events.
C35_FlushClears ==
  sseRun.flushes > 0
  => /\ parser.buffer = <<>>
     /\ Len(sseRun.flushed) <= 1
     /\ sseRun.flushed = FlushOpClearing(sseRun.before).events
     /\ sseRun.before = <<>> => sseRun.flushed = <<>>
     /\ sseRun.flushes = 2 => sseRun.flushed = <<>>

(***************************************************************************)
(* Code Assist handlers with OAuth (src/src/providers/gemini.ts, lines     *)
(* 239-320 and 490-766).  Several client requests run concurrently and     *)
(* share cachedToken and the credentials file.                             *)
(***************************************************************************)
Requests == 1..NumRequests

\* cachedToken: null, or a token; fresh means expiryDate > Date.now() + 60_000
NoToken == [present |-> FALSE, tok |-> 0, fresh |-> FALSE]

\* The credentials file: unreadable (missing or not JSON), or holding a token.
CredsFiles ==
  {[readable |-> FALSE, tok |-> 0, fresh |-> FALSE],
   [readable |-> TRUE, tok |-> 0, fresh |-> TRUE],
   [readable |-> TRUE, tok |-> 0, fresh |-> FALSE]}

\* Answers of the OAuth endpoint to refreshToken: failure, or a new token that
\* is fresh or already within 60 s of its expiry.
RefreshResults ==
  {[ok |-> FALSE, fresh |-> FALSE], [ok |-> TRUE, fresh |-> TRUE],
   [ok |-> TRUE, fresh |-> FALSE]}

\* Answers of the Code Assist endpoint.
GeminiResponses ==
  [status : {200}, jsonOk : BOOLEAN] \cup [status : {401, 500}, jsonOk : {TRUE}]

GqIdle ==
  [mode |-> "none", pc |-> "idle", retryCount |-> 0, calls |-> 0, statuses |-> <<>>,
   tok |-> 0, refreshes |-> 0, data |-> 0, buffered |-> 0, overflow |-> FALSE]

\* sendError of gemini.ts: writes the head unless sent, always ends
GeminiSendError(c, status, errType) ==
  EndWith(IF ~c.headersSent THEN WriteHead(c, status, "") ELSE c, errType)

\* https.request(...) with Authorization: Bearer <tok>
GeminiSend(g, tok) ==
  [g EXCEPT !.pc = "await", !.calls = @ + 1, !.tok = tok]

\* handleGeminiStreaming / handleGeminiNonStreaming up to the first
\* suspension: getAccessToken, then the upstream request.
HandlerEntry(g, c, cached, cr) ==
  IF cached.present /\ cached.fresh
  THEN [g |-> GeminiSend(g, cached.tok), c |-> c, cached |-> cached, refresh |-> 0]
  ELSE IF ~cr.readable
  THEN [g |-> [g EXCEPT !.pc = "done"],
        c |-> GeminiSendError(c, 500, "authentication_error"),
        cached |-> cached, refresh |-> 0]
  ELSE IF cr.fresh
  THEN [g |-> GeminiSend(g, cr.tok), c |-> c,
        cached |-> [present |-> TRUE, tok |-> cr.tok, fresh |-> TRUE], refresh |-> 0]
  ELSE [g |-> [g EXCEPT !.pc = "tokenRefresh", !.refreshes = @ + 1], c |-> c,
        cached |-> cached, refresh |-> 1]

\* A client request reaches handleGeminiStreaming / handleGeminiNonStreaming.
GmStart(r) ==
  /\ gq[r].pc = "idle"
  /\ \E mode \in {"stream", "unary"} :
       LET e == HandlerEntry([gq[r] EXCEPT !.mode = mode], gc[r], cachedToken, creds)
       IN /\ gq' = [gq EXCEPT ![r] = e.g]
          /\ gc' = [gc EXCEPT ![r] = e.c]
          /\ cachedToken' = e.cached
          /\ oauth' = [oauth EXCEPT !.started = @ + e.refresh]
  /\ UNCHANGED <<creds, notGeminiVars>>

\* refreshToken called by getAccessToken is answered (lines 256-272).
GmTokenRefreshed(r) ==
  /\ gq[r].pc = "tokenRefresh"
  /\ \E res \in RefreshResults, wrote \in BOOLEAN :
       IF res.ok
       THEN LET tok == oauth.issued + 1
            IN /\ cachedToken' = [present |-> TRUE, tok |-> tok, fresh |-> res.fresh]
               /\ creds' = IF wrote
                           THEN [readable |-> TRUE, tok |-> tok, fresh |-> res.fresh]
                           ELSE creds
               /\ oauth' = [oauth EXCEPT !.issued = tok]
               /\ gq' = [gq EXCEPT ![r] = GeminiSend(@, tok)]
               /\ UNCHANGED gc
       ELSE /\ gq' = [gq EXCEPT ![r].pc = "done"]
            /\ gc' = [gc EXCEPT ![r] = GeminiSendError(@, 500, "authentication_error")]
            /\ UNCHANGED <<cachedToken, creds, oauth>>
  /\ UNCHANGED notGeminiVars

\* The 401 branch (lines 532-536 with 601-609, and 657-662): drop the cached
\* token, read the credentials file, call refreshToken.
On401(g, c, cr) ==
  IF cr.readable
  THEN [g |-> [g EXCEPT !.pc = "retryRefresh", !.refreshes = @ + 1], c |-> c, refresh |-> 1]
  ELSE [g |-> [g EXCEPT !.pc = "done"],
        c |-> GeminiSendError(c, 502, "authentication_error"), refresh |-> 0]

\* The Code Assist response has arrived; for a status other than 200, and on
\* the unary path, this is its 'end' handler.
GmResponse(r) ==
  /\ gq[r].pc = "await"
  /\ \E resp \in GeminiResponses :
       LET g == [gq[r] EXCEPT !.statuses = Append(@, resp.status)]
       IN IF resp.status = 401 /\ g.retryCount < 1
          THEN LET e == On401(g, gc[r], creds)
               IN /\ cachedToken' = NoToken
                  /\ gq' = [gq EXCEPT ![r] = e.g]
                  /\ gc' = [gc EXCEPT ![r] = e.c]
                  /\ oauth' = [oauth EXCEPT !.started = @ + e.refresh]
          ELSE /\ UNCHANGED <<cachedToken, oauth>>
               /\ IF resp.status # 200
                  THEN /\ gq' = [gq EXCEPT ![r] = [g EXCEPT !.pc = "done"]]
                       /\ gc' = [gc EXCEPT ![r] = GeminiSendError(@, 502, "api_error")]
                  ELSE IF g.mode = "stream"
                  THEN /\ gq' = [gq EXCEPT ![r] = [g EXCEPT !.pc = "piping"]]
                       /\ gc' = [gc EXCEPT ![r] = WriteHead(@, 200, "gemini")]
                  ELSE /\ gq' = [gq EXCEPT ![r] = [g EXCEPT !.pc = "done"]]
                       /\ gc' = [gc EXCEPT ![r] =
                                   IF resp.jsonOk
                                   THEN EndWith(WriteHead(@, 200, "gemini"), "")
                                   ELSE GeminiSendError(@, 502, "api_error")]
  /\ UNCHANGED <<creds, notGeminiVars>>

\* refreshToken called after a 401 is answered (lines 609-618, 662-671):
\* on success the handler is called again with retryCount + 1.
GmRetryRefreshed(r) ==
  /\ gq[r].pc = "retryRefresh"
  /\ \E res \in RefreshResults :
       IF res.ok
       THEN LET tok == oauth.issued + 1
                cached == [present |-> TRUE, tok |-> tok, fresh |-> res.fresh]
                e == HandlerEntry([gq[r] EXCEPT !.retryCount = @ + 1], gc[r], cached, creds)
            IN /\ cachedToken' = e.cached
               /\ oauth' = [started |-> oauth.started + e.refresh, issued |-> tok]
               /\ gq' = [gq EXCEPT ![r] = e.g]
               /\ gc' = [gc EXCEPT ![r] = e.c]
       ELSE /\ gq' = [gq EXCEPT ![r].pc = "done"]
            /\ gc' = [gc EXCEPT ![r] = GeminiSendError(@, 502, "authentication_error")]
            /\ UNCHANGED <<cachedToken, oauth>>
  /\ UNCHANGED <<creds, notGeminiVars>>

\* geminiRes.on('data') of the streamed 200 response (lines 556-566): the
\* events of the chunk are written with clientRes.write(event), whose result
\* is not looked at; one event per chunk here.
GmData(r) ==
  /\ gq[r].pc = "piping"
  /\ gq[r].data < MaxData
  /\ gq' = [gq EXCEPT ![r].data = @ + 1, ![r].buffered = 0]
  /\ \E full \in BOOLEAN :
       gc' = [gc EXCEPT ![r] = IF Writable(@) THEN WriteChunk(@, full) ELSE @]
  /\ UNCHANGED <<cachedToken, creds, oauth, notGeminiVars>>

\* the text sseParser holds after n chunks of 3 MiB without a blank line
PartialText(n) == [i \in 1..n |-> "B"]

\* geminiRes.on('data') for a chunk of 3 MiB that completes no block (lines
\* 556-566): sseParser.feed(chunk) buffers it, or throws when the buffer
\* exceeds MAX_SSE_BUFFER.  Nothing catches the exception thrown inside the
\* listener and no 'uncaughtException' handler is registered: the process
\* ends, and with it every request it was serving.
GmDataPartial(r) ==
  /\ gq[r].pc = "piping"
  /\ gq[r].data < MaxData
  /\ Writable(gc[r])
  /\ LET fed == FeedOp(PartialText(gq[r].buffered), <<"B">>)
     IN IF fed.threw
        THEN /\ gq' = [x \in Requests |->
                        [gq[x] EXCEPT !.pc = "crashed", !.overflow = @ \/ x = r,
                                      !.buffered = IF x = r THEN 0 ELSE @]]
             /\ gc' = [x \in Requests |-> [gc[x] EXCEPT !.closed = TRUE]]
        ELSE /\ gq' = [gq EXCEPT ![r].data = @ + 1, ![r].buffered = Len(fed.buffer)]
             /\ UNCHANGED gc
  /\ UNCHANGED <<cachedToken, creds, oauth, notGeminiVars>>

\* the client's 'drain' event; no listener is registered for it
GmDrain(r) ==
  /\ gc[r].needDrain
  /\ ~gc[r].closed
  /\ gc' = [gc EXCEPT ![r] = Drained(@)]
  /\ UNCHANGED <<gq, cachedToken, creds, oauth, notGeminiVars>>

\* geminiRes.on('end') of the streamed 200 response (lines 568-580)
GmEnd(r) ==
  /\ gq[r].pc = "piping"
  /\ gq' = [gq EXCEPT ![r].pc = "done"]
  /\ gc' = [gc EXCEPT ![r] = IF Writable(@) THEN EndWith(@, "") ELSE @]
  /\ UNCHANGED <<cachedToken, creds, oauth, notGeminiVars>>

\* geminiHttpReq.on('error'): connection error or timeout (lines 588-595,
\* 704-711)
GmRequestError(r) ==
  /\ gq[r].pc \in {"await", "piping"}
  /\ gq' = [gq EXCEPT ![r].pc = "done"]
  /\ gc' = [gc EXCEPT ![r] = GeminiSendError(@, 502, "api_error")]
  /\ UNCHANGED <<cachedToken, creds, oauth, notGeminiVars>>

GeminiNext ==
  \E r \in Requests :
    \/ GmStart(r) \/ GmTokenRefreshed(r) \/ GmResponse(r)
    \/ GmRetryRefreshed(r) \/ GmData(r) \/ GmDataPartial(r) \/ GmDrain(r) \/ GmEnd(r)
    \/ GmRequestError(r)

(***************************************************************************)
(* Claims about the Code Assist handlers.                                  *)
(***************************************************************************)
\* C8: a request whose retried upstream call is answered 401 again gets
\* 502 authentication_error.
C8_Second401IsAuthError ==
  \A r \in Requests :
    (gq[r].pc = "done" /\ gq[r].statuses = <<401, 401>>)
      => (gc[r].status = 502 /\ gc[r].errType = "authentication_error")

\* C9: at no time are two token refreshes triggered by a 401 in progress.
C9_SingleRefresh ==
  Cardinality({r \in Requests : gq[r].pc = "retryRefresh"}) <= 1

\* C17: in the streaming relay nothing is written to the client between a
\* write that returned false and the client's drain event.
C17_NoWriteBeforeDrain ==
  \A r \in Requests : gc[r].undrained = 0

\* C34: when a feed makes the buffer of a request's parser exceed
\* MAX_SSE_BUFFER, the parser's buffer stays within the bound and the handler
\* ends the response of that request; the other requests go on.
C34_OverflowEndsThatConnection ==
  \A r \in Requests :
    /\ gq[r].buffered * CharLength("B") <= MAX_SSE_BUFFER
    /\ gq[r].overflow
       => /\ gc[r].ended
          /\ \A x \in Requests \ {r} : gq[x].pc # "crashed"

(***************************************************************************)
(* Passthrough to the real API (src/unnamed/part_007) with the retry body  *)
(* of the router (src/src/router.ts, lines 79-82 and 116-129).             *)
(***************************************************************************)
\* The content of the assistant message of the request body: block types.
BlockTypes == {"thinking", "text"}
RequestBodies == SeqsUpTo(BlockTypes, MaxBlocks)

\* msg.content.filter(block => block.type !== 'thinking')
RECURSIVE FilterThinking(_)
FilterThinking(content) ==
  IF content = <<>> THEN <<>>
  ELSE IF Head(content) = "thinking" THEN FilterThinking(Tail(content))
  ELSE <<Head(content)>> \o FilterThinking(Tail(content))

\* stripThinkingBlocks, on the assistant message: a message left with no
\* block is kept as it was.
StripThinkingBlocks(content) ==
  LET filtered == FilterThinking(content)
  IN IF Len(filtered) = 0 THEN content ELSE filtered

\* The content-encoding header of an upstream response.
EncodingHeaders == {"absent", "gzip", "x-gzip", "br", "deflate", "zstd"}
\* How the body bytes are really encoded.
Codecs == {"identity", "gzip", "br", "deflate", "zstd"}

\* The head of an upstream response.
PassHeads == [status : {200, 400, 500}, encoding : EncodingHeaders]
NoHead == [status |-> 0, encoding |-> "absent"]

\* The buffered body of a 400: its real encoding, whether the decoded text
\* holds THINKING_SIGNATURE_ERROR, and whether the raw bytes read as utf-8 do.
ErrBodies ==
  {b \in [codec : Codecs, textHas : BOOLEAN, rawHas : BOOLEAN] :
     b.codec = "identity" => b.rawHas = b.textHas}
NoErrBody == [codec |-> "identity", textHas |-> FALSE, rawHas |-> FALSE]

\* The zlib call decompressBody makes for a content-encoding value
CodecOf(encoding) ==
  CASE encoding \in {"gzip", "x-gzip"} -> "gzip"
    [] encoding = "br" -> "br"
    [] encoding = "deflate" -> "deflate"
    [] OTHER -> "none"

\* decompressBody(buf, encoding).includes(THINKING_SIGNATURE_ERROR): the zlib
\* call throws on bytes of another encoding and the raw bytes are used.
DecompressedHasError(body, encoding) ==
  IF CodecOf(encoding) # "none" /\ CodecOf(encoding) = body.codec
  THEN body.textHas
  ELSE body.rawHas

PtIdle ==
  [pc |-> "idle", rawBody |-> <<>>, withRetry |-> FALSE, getRetryBody |-> FALSE,
   calls |-> 0, bodies |-> <<>>, heads |-> <<>>, cur |-> NoHead,
   errBody |-> NoErrBody, buffered |-> FALSE, destroyed |-> FALSE, data |-> 0,
   headsAtRetry |-> 0, callsAfterClose |-> 0]

\* sendUpstream(method, path, headers, body, clientRes, getRetryBody)
SendUpstream(p, c, body, getRetryBody) ==
  [p EXCEPT !.pc = "await", !.calls = @ + 1, !.bodies = Append(@, body),
            !.getRetryBody = getRetryBody, !.cur = NoHead, !.destroyed = FALSE,
            !.callsAfterClose = @ + Late(c)]

\* line 109 with the retry callback passed on again
RetryKeepingCallback(p, c) ==
  SendUpstream([p EXCEPT !.headsAtRetry = IF c.headersSent THEN 1 ELSE 0], c,
               StripThinkingBlocks(p.rawBody), TRUE)

\* line 109: sendUpstream(method, path, headers, getRetryBody(), clientRes)
RetryUpstream(p, c) ==
  SendUpstream([p EXCEPT !.headsAtRetry = IF c.headersSent THEN 1 ELSE 0], c,
               StripThinkingBlocks(p.rawBody), FALSE)

\* proxyReq.on('error') handler (lines 142-153)
PassError(c) ==
  EndWith(IF ~c.headersSent THEN WriteHead(c, 502, "") ELSE c, "api_error")

\* forwardToAnthropic is called by the router, with or without the callback.
PtStart ==
  /\ pt.pc = "idle"
  /\ \E withRetry \in BOOLEAN :
       pt' = SendUpstream([pt EXCEPT !.withRetry = withRetry], pcl, pt.rawBody, withRetry)
  /\ UNCHANGED <<pcl, notPassVars>>

\* The response callback (lines 91-131).
PtResponse ==
  /\ pt.pc = "await"
  /\ ~pt.destroyed
  /\ \E h \in PassHeads :
       IF h.status = 400 /\ pt.getRetryBody
       THEN /\ pt' = [pt EXCEPT !.pc = "buffer400", !.cur = h, !.heads = Append(@, h)]
            /\ UNCHANGED pcl
       ELSE /\ pt' = [pt EXCEPT !.pc = "piping", !.cur = h, !.heads = Append(@, h)]
            /\ pcl' = WriteHead(pcl, h.status, "")
  /\ UNCHANGED notPassVars

\* proxyRes.pipe(clientRes): a chunk is relayed
PtData ==
  /\ pt.pc = "piping"
  /\ pt.data < MaxData
  /\ pt' = [pt EXCEPT !.data = @ + 1]
  /\ pcl' = IF Writable(pcl) THEN [pcl EXCEPT !.written = @ + 1] ELSE pcl
  /\ UNCHANGED notPassVars

\* The upstream response ends: the 'end' handler of the buffered 400
\* (lines 103-115), or the end of the pipe.
PtEnd ==
  /\ pt.pc \in {"buffer400", "piping"}
  /\ ~pt.destroyed
  /\ IF pt.pc = "piping"
     THEN /\ pt' = [pt EXCEPT !.pc = "done"]
          /\ pcl' = IF Writable(pcl) THEN EndWith(pcl, "") ELSE pcl
     ELSE \E b \in ErrBodies :
            LET p == [pt EXCEPT !.errBody = b, !.buffered = TRUE]
            IN IF DecompressedHasError(b, pt.cur.encoding)
               THEN /\ pt' = RetryUpstream(p, pcl)
                    /\ UNCHANGED pcl
               ELSE /\ pt' = [p EXCEPT !.pc = "done"]
                    /\ pcl' = EndWith(WriteHead(pcl, 400, ""), "")
  /\ UNCHANGED notPassVars

\* proxyReq 'error': connection error, reset, the timeout's destroy(err), or
\* the hang-up of a request destroyed before its response.
PtRequestError ==
  /\ \/ pt.pc = "await"
     \/ pt.pc \in {"buffer400", "piping"} /\ ~pt.destroyed
  /\ pt' = [pt EXCEPT !.pc = "done", !.destroyed = TRUE]
  /\ pcl' = PassError(pcl)
  /\ UNCHANGED notPassVars

\* proxyRes 'error': the upstream ends the response early (lines 116-119,
\* 125-128).
PtResponseAborted ==
  /\ pt.pc \in {"buffer400", "piping"}
  /\ ~pt.destroyed
  /\ pt' = [pt EXCEPT !.pc = "done", !.destroyed = TRUE]
  /\ pcl' = IF Writable(pcl) THEN EndWith(pcl, "") ELSE pcl
  /\ UNCHANGED notPassVars

\* clientRes 'close' (lines 134-136): the request is destroyed; a response
\* in progress is aborted and its 'error' handler finds the client closed.
PtClientClose ==
  /\ pt.pc \in {"await", "buffer400", "piping"}
  /\ ~pcl.closed
  /\ pcl' = [pcl EXCEPT !.closed = TRUE]
  /\ pt' = IF pt.destroyed THEN pt
           ELSE [pt EXCEPT !.destroyed = TRUE,
                           !.pc = IF pt.pc = "await" THEN "await" ELSE "done"]
  /\ UNCHANGED notPassVars

PassNext ==
  \/ PtStart \/ PtResponse \/ PtData \/ PtEnd
  \/ PtRequestError \/ PtResponseAborted \/ PtClientClose

(***************************************************************************)
(* Claims about the passthrough.                                           *)
(***************************************************************************)
\* The response's content-encoding says how its bytes are encoded (one of
\* the handled encodings, or none).
PtWellEncoded ==
  \/ pt.heads[1].encoding = "absent" /\ pt.errBody.codec = "identity"
  \/ pt.heads[1].encoding \in {"gzip", "x-gzip"} /\ pt.errBody.codec = "gzip"
  \/ pt.heads[1].encoding = "br" /\ pt.errBody.codec = "br"
  \/ pt.heads[1].encoding = "deflate" /\ pt.errBody.codec = "deflate"

\* C10: an upstream 400 whose decompressed body holds the thinking-signature
\* error, received with a retry callback, writes nothing to the client and
\* reissues the request once with the callback's body; the second response is
\* forwarded whatever its status; at most 2 upstream requests; no retry
\* without a callback, on another status, or without the error text.
C10_ThinkingRetry ==
  /\ pt.calls <= 2
  /\ pt.calls = 2 =>
       /\ pt.withRetry /\ pt.heads[1].status = 400 /\ pt.buffered
       /\ PtWellEncoded => pt.errBody.textHas
       /\ pt.bodies = <<pt.rawBody, StripThinkingBlocks(pt.rawBody)>>
       /\ pt.headsAtRetry = 0
  /\ (pt.buffered /\ PtWellEncoded /\ pt.errBody.textHas) => pt.calls = 2
  /\ (pt.buffered /\ PtWellEncoded /\ ~pt.errBody.textHas) =>
       (pt.calls = 1 /\ pcl.status = 400)
  /\ Len(pt.heads) = 2 => (pcl.headersSent /\ pcl.status = pt.heads[2].status)

\* A gzip-encoded 400 with the error text was retried without the thinking
\* block, and the second 400 was forwarded.
C10_Witness ==
  /\ pt.pc = "done"
  /\ pt.calls = 2
  /\ Len(pt.heads) = 2
  /\ pt.rawBody = <<"thinking", "text">>
  /\ pt.bodies = <<<<"thinking", "text">>, <<"text">>>>
  /\ pt.heads[1] = [status |-> 400, encoding |-> "gzip"]
  /\ pt.errBody = [codec |-> "gzip", textHas |-> TRUE, rawHas |-> FALSE]
  /\ pt.heads[2].status = 400
  /\ pcl.status = 400 /\ pcl.ended /\ pcl.writeHeads = 1

\* C16: an error body is written to the client only in a response whose
\* head the error handler wrote itself (502, nothing relayed before).
C16_ErrorOnlyBeforeHeaders ==
  pcl.errType # "" => (pcl.status = 502 /\ pcl.written = 0 /\ pcl.writeHeads = 1)

(***************************************************************************)
(* The response head on every path of a client request.  handleRequest     *)
(* answers a request itself (413, 500) or hands its res to one handler:    *)
(* rt.res, cl and pcl are that one http.ServerResponse as the router, the  *)
(* intercept handler and the passthrough write to it.                      *)
(***************************************************************************)
\* A step from response c to response d calls writeHead only when no head
\* has gone out yet (writeHead after the head throws ERR_HTTP_HEADERS_SENT).
HeadOnFreshResponse(c, d) ==
  d.writeHeads > c.writeHeads => ~c.headersSent

\* C38: whatever the order of the upstream-response, upstream-error,
\* timeout, retry and client-close callbacks, the status line and headers
\* are written to the client at most once: by the intercept handlers, by the
\* passthrough (signature retry included) and on the router's 413 path; a
\* request handed to a handler has one handler and no head from the router.
C38_HeadersOnce ==
  /\ [](/\ cl.writeHeads <= 1
        /\ pcl.writeHeads <= 1
        /\ rt.res.writeHeads <= 1
        /\ Len(rtCalls) <= 1
        /\ rtCalls # <<>> => ~rt.res.headersSent)
  /\ [][/\ HeadOnFreshResponse(cl, cl')
        /\ HeadOnFreshResponse(pcl, pcl')
        /\ HeadOnFreshResponse(rt.res, rt'.res)]_vars

\* The streamed 200 head has been written and the upstream request has then
\* failed (timeout or reset): sendError was called on a response whose head
\* was out, and the response was ended with its one head.
C38_Witness ==
  /\ px.mode = "stream"
  /\ px.pc = "done"
  /\ px.outcomes = <<200>>
  /\ px.destroyed
  /\ px.data > 0
  /\ ~cl.closed
  /\ cl.writeHeads = 1
  /\ cl.status = 200
  /\ cl.ended

(***************************************************************************)
(* anthropicToGemini (src/src/translator/messages.ts, lines 83-191).       *)
(* A content block is the record of the fields the translation reads; a    *)
(* message content is an array of blocks (a string content is the array of *)
(* one text block, normalizeContent).  A part carries, besides the fields  *)
(* of a GeminiPart, the position `at` = <<message, block>> of the block it *)
(* was made from; `at` is an observer, no field of the program.            *)
(***************************************************************************)
ToolIds == {"a", "b"}
Roles == {"user", "assistant"}

TextBlock(t) ==
  [type |-> "text", text |-> t, signature |-> "", id |-> "", name |-> ""]
ToolUseBlock(id, name) ==
  [type |-> "tool_use", text |-> "", signature |-> "", id |-> id, name |-> name]
ToolResultBlock(id) ==
  [type |-> "tool_result", text |-> "", signature |-> "", id |-> id, name |-> ""]
ThinkingBlock(t, sig) ==
  [type |-> "thinking", text |-> t, signature |-> sig, id |-> "", name |-> ""]

\* The blocks of the requests: a text, an empty text (no part), two tool_use
\* blocks with one id and different names, a tool_result for that id, a
\* tool_result for an id no tool_use has, and a thinking block with a
\* signature.
ContentBlocks ==
  {TextBlock("t"), TextBlock(""), ToolUseBlock("a", "x"), ToolUseBlock("a", "y"),
   ToolResultBlock("a"), ToolResultBlock("b"), ThinkingBlock("k", "s")}

\* Requests are enumerated through their flattened form: the blocks of each
\* message followed by a mark that carries the message's role.
BlockItems == {[role |-> "", block |-> b] : b \in ContentBlocks}
RoleMarks == {[role |-> r, block |-> TextBlock("")] : r \in Roles}

RECURSIVE MessagesOf(_, _)
MessagesOf(flat, content) ==
  IF Len(flat) = 0 THEN <<>>
  ELSE LET h == Head(flat)
       IN IF h.role = ""
          THEN MessagesOf(Tail(flat), Append(content, h.block))
          ELSE <<[role |-> h.role, content |-> content]>> \o MessagesOf(Tail(flat), <<>>)

\* new Map<string, string>(): "" stands for an id without entry
EmptyToolIdMap == [id \in ToolIds |-> ""]

RECURSIVE MapToolUses(_, _)
\* the inner loop of buildToolUseIdMap: map.set(block.id, block.name)
MapToolUses(map, blocks) ==
  IF blocks = <<>> THEN map
  ELSE LET block == Head(blocks)
       IN MapToolUses(IF block.type = "tool_use" /\ block.id # "" /\ block.name # ""
                      THEN [map EXCEPT ![block.id] = block.name]
                      ELSE map,
                      Tail(blocks))

RECURSIVE BuildToolUseIdMapFrom(_, _)
BuildToolUseIdMapFrom(map, msgs) ==
  IF msgs = <<>> THEN map
  ELSE LET msg == Head(msgs)
       IN BuildToolUseIdMapFrom(IF msg.role # "assistant" THEN map
                                ELSE MapToolUses(map, msg.content),
                                Tail(msgs))

\* buildToolUseIdMap(messages)
BuildToolUseIdMap(msgs) == BuildToolUseIdMapFrom(EmptyToolIdMap, msgs)

GeminiPart(kind, text, name, sig, at) ==
  [kind |-> kind, text |-> text, name |-> name, thoughtSignature |-> sig, at |-> at]

\* toolIdMap.get(block.tool_use_id!) || 'unknown_tool'
ToolNameOf(toolIdMap, id) ==
  IF toolIdMap[id] # "" THEN toolIdMap[id] ELSE "unknown_tool"

RECURSIVE ConvertBlocks(_, _, _, _, _, _)
\* the switch over the blocks of message i, from block j on: parts so far
\* and pendingThoughtSignature
ConvertBlocks(blocks, toolIdMap, i, j, parts, pending) ==
  IF j > Len(blocks) THEN parts
  ELSE LET block == blocks[j]
           at == <<i, j>>
       IN CASE block.type = "text" ->
                 ConvertBlocks(blocks, toolIdMap, i, j + 1,
                               IF block.text # ""
                               THEN Append(parts, GeminiPart("text", block.text, "", "", at))
                               ELSE parts,
                               "")
            [] block.type = "thinking" ->
                 ConvertBlocks(blocks, toolIdMap, i, j + 1,
                               IF block.text # ""
                               THEN Append(parts, GeminiPart("thought", block.text, "", "", at))
                               ELSE parts,
                               block.signature)
            [] block.type = "tool_use" ->
                 ConvertBlocks(blocks, toolIdMap, i, j + 1,
                               Append(parts, GeminiPart("functionCall", "", block.name, pending, at)),
                               "")
            [] block.type = "tool_result" ->
                 ConvertBlocks(blocks, toolIdMap, i, j + 1,
                               Append(parts, GeminiPart("functionResponse", "",
                                                        ToolNameOf(toolIdMap, block.id), "", at)),
                               pending)
            [] OTHER ->
                 ConvertBlocks(blocks, toolIdMap, i, j + 1, parts, pending)

\* msg.role === 'assistant' ? 'model' : 'user'
GeminiRole(role) == IF role = "assistant" THEN "model" ELSE "user"

\* always pushes a new content
PushContent(contents, role, parts) ==
  IF parts = <<>> THEN contents
  ELSE Append(contents, [role |-> role, parts |-> parts])

\* the tail of the loop body: merge into the last content or push
AddContent(contents, role, parts) ==
  IF parts = <<>> THEN contents
  ELSE IF contents # <<>> /\ contents[Len(contents)].role = role
  THEN [contents EXCEPT ![Len(contents)].parts = @ \o parts]
  ELSE Append(contents, [role |-> role, parts |-> parts])

RECURSIVE ConvertMessages(_, _, _, _)
\* `for (const msg of req.messages)` from message i on
ConvertMessages(msgs, toolIdMap, i, contents) ==
  IF i > Len(msgs) THEN contents
  ELSE LET msg == msgs[i]
           parts == ConvertBlocks(msg.content, toolIdMap, i, 1, <<>>, "")
       IN ConvertMessages(msgs, toolIdMap, i + 1,
                          AddContent(contents, GeminiRole(msg.role), parts))

AgIdle == [pc |-> "idle", toolIdMap |-> EmptyToolIdMap, contents |-> <<>>]

\* anthropicToGemini(req): the id map of the whole history, then the loop
AnthropicToGemini ==
  /\ ag.pc = "idle"
  /\ LET toolIdMap == BuildToolUseIdMap(messages)
     IN ag' = [pc |-> "done", toolIdMap |-> toolIdMap,
               contents |-> ConvertMessages(messages, toolIdMap, 1, <<>>)]
  /\ UNCHANGED <<messages, notMessagesVars>>

MessagesNext == AnthropicToGemini

(***************************************************************************)
(* Claims about anthropicToGemini.                                         *)
(***************************************************************************)
RECURSIVE FlatParts(_)
\* the parts of all contents, in order
FlatParts(contents) ==
  IF contents = <<>> THEN <<>>
  ELSE Head(contents).parts \o FlatParts(Tail(contents))

RECURSIVE PartsOfMessages(_, _, _)
\* the parts of messages i..n, message after message
PartsOfMessages(msgs, toolIdMap, i) ==
  IF i > Len(msgs) THEN <<>>
  ELSE ConvertBlocks(msgs[i].content, toolIdMap, i, 1, <<>>, "")
         \o PartsOfMessages(msgs, toolIdMap, i + 1)

\* position p of the history comes before position q
Before(p, q) == p[1] < q[1] \/ (p[1] = q[1] /\ p[2] < q[2])

\* C19: no two adjacent contents share a role, no content is empty, and
\* the parts of the contents are the parts of the messages in message order.
C19_RolesAlternate ==
  ag.pc = "done" =>
    /\ \A k \in 1..(Len(ag.contents) - 1) : ag.contents[k].role # ag.contents[k + 1].role
    /\ \A k \in 1..Len(ag.contents) : ag.contents[k].parts # <<>>
    /\ FlatParts(ag.contents) = PartsOfMessages(messages, ag.toolIdMap, 1)
    /\ \A k \in 1..Len(ag.contents) : \A n \in 1..Len(ag.contents[k].parts) :
         /\ ag.contents[k].role = GeminiRole(messages[ag.contents[k].parts[n].at[1]].role)
         /\ n > 1 => Before(ag.contents[k].parts[n - 1].at, ag.contents[k].parts[n].at)

\* two same-role messages with parts, separated only by a message of the
\* other role that translates to no parts, were merged into one content
C19_Witness ==
  /\ ag.pc = "done"
  /\ Len(messages) = 3
  /\ messages[1].role = messages[3].role
  /\ messages[2].role # messages[1].role
  /\ messages[2].content # <<>>
  /\ Len(ag.contents) = 1
  /\ Len(ag.contents[1].parts) = 2
  /\ ag.contents[1].parts[1].at[1] = 1
  /\ ag.contents[1].parts[2].at[1] = 3

\* C20: a functionResponse made from a tool_result whose tool_use_id is the
\* id of a tool_use block earlier in the history has that block's name.
C20_ToolLinkage ==
  ag.pc = "done" =>
    \A k \in 1..Len(ag.contents) : \A n \in 1..Len(ag.contents[k].parts) :
      LET part == ag.contents[k].parts[n]
          result == messages[part.at[1]].content[part.at[2]]
      IN part.kind = "functionResponse" =>
           \A i \in 1..Len(messages) : \A j \in 1..Len(messages[i].content) :
             LET block == messages[i].content[j]
             IN (/\ Before(<<i, j>>, part.at)
                 /\ block.type = "tool_use"
                 /\ block.id = result.id)
                => part.name = block.name

\* the parts of the result, as a set
AgParts == {FlatParts(ag.contents)[n] : n \in 1..Len(FlatParts(ag.contents))}

\* the block a part was made from
BlockAt(at) == messages[at[1]].content[at[2]]

\* the positions of the blocks of the history
BlockPositions ==
  {<<i, j>> : i \in 1..Len(messages), j \in 1..MaxItems} \cap
  UNION {{<<i, j>> : j \in 1..Len(messages[i].content)} : i \in 1..Len(messages)}

\* C21: a functionResponse made from a tool_result whose tool_use_id is the
\* id of no tool_use block earlier in the history is named "unknown_tool".
C21_UnknownTool ==
  ag.pc = "done" =>
    \A part \in AgParts :
      (/\ part.kind = "functionResponse"
       /\ \A q \in BlockPositions :
            ~(/\ Before(q, part.at)
              /\ BlockAt(q).type = "tool_use"
              /\ BlockAt(q).id = BlockAt(part.at).id))
      => part.name = "unknown_tool"

\* C22: the signature of a thinking block is on the first functionCall part
\* made from a later block of the same message; a functionCall part has a
\* signature only if it is the first one after a thinking block of its
\* message with that signature.
C22_SignatureOnNextCall ==
  ag.pc = "done" =>
    /\ \A p \in BlockPositions : \A q \in BlockPositions :
         (/\ BlockAt(p).type = "thinking"
          /\ BlockAt(p).signature # ""
          /\ p[1] = q[1]
          /\ p[2] < q[2]
          /\ BlockAt(q).type = "tool_use"
          /\ \A j \in (p[2] + 1)..(q[2] - 1) : BlockAt(<<p[1], j>>).type # "tool_use")
         => \E part \in AgParts :
              /\ part.at = q
              /\ part.kind = "functionCall"
              /\ part.thoughtSignature = BlockAt(p).signature
    /\ \A part \in AgParts :
         (part.kind = "functionCall" /\ part.thoughtSignature # "")
         => \E j \in 1..(part.at[2] - 1) :
              /\ BlockAt(<<part.at[1], j>>).type = "thinking"
              /\ BlockAt(<<part.at[1], j>>).signature = part.thoughtSignature
              /\ \A j2 \in (j + 1)..(part.at[2] - 1) :
                   BlockAt(<<part.at[1], j2>>).type # "tool_use"

(***************************************************************************)
(* cleanSchema (src/src/translator/messages.ts, lines 268-296).            *)
(* A JSON value is a node: a primitive, an object (its entries in          *)
(* insertion order) or an array (its elements, with "" as key).            *)
(***************************************************************************)
GEMINI_ALLOWED_SCHEMA_KEYS ==
  {"type", "description", "properties", "required", "items", "enum", "format",
   "nullable", "minimum", "maximum", "minItems", "maxItems", "minLength",
   "maxLength", "pattern", "default", "example", "title", "anyOf", "oneOf"}

MAX_SCHEMA_DEPTH == 32

Prim == [kind |-> "prim", kids |-> <<>>]
Obj(kids) == [kind |-> "obj", kids |-> kids]
Arr(kids) == [kind |-> "arr", kids |-> kids]
Entry(key, node) == [key |-> key, node |-> node]

\* The keys of the schemas translated, in the order objects hold them: an
\* allow-listed key, the key of property maps, a key off the allow-list.
SchemaKeyOrder == <<"items", "properties", "x-ext">>
SchemaKeys == {SchemaKeyOrder[i] : i \in 1..Len(SchemaKeyOrder)}

\* the entries of an object with the keys of K, the value of key k being c
\* and the other values primitives
KidsOf(K, k, c) ==
  LET ks == SelectSeq(SchemaKeyOrder, LAMBDA x : x \in K)
  IN [i \in 1..Len(ks) |-> Entry(ks[i], IF ks[i] = k THEN c ELSE Prim)]

RECURSIVE SchemaObjects(_)
\* objects nested up to d levels: the objects of primitives, and the objects
\* with one value that is an object or an array of one object, alone or
\* beside a primitive under a key off the allow-list
SchemaObjects(d) ==
  {Obj(KidsOf(K, "", Prim)) : K \in SUBSET SchemaKeys} \cup
  (IF d <= 1 THEN {}
   ELSE LET sub == SchemaObjects(d - 1)
            children == sub \cup {Arr(<<Entry("", o)>>) : o \in sub}
        IN UNION {{Obj(KidsOf(K \cup {k}, k, c)) : K \in {{}, {"x-ext"}}, c \in children} :
                    k \in SchemaKeys})

RECURSIVE NestedIn(_, _)
\* schema under n levels of { items: ... }
NestedIn(schema, n) ==
  IF n = 0 THEN schema ELSE Obj(<<Entry("items", NestedIn(schema, n - 1))>>)

\* tool.input_schema of the tools translated: the objects up to
\* MaxSchemaDepth levels, and smaller ones nested around the recursion bound
InputSchemas ==
  SchemaObjects(MaxSchemaDepth) \cup
  {NestedIn(s, n) : s \in SchemaObjects(MaxSchemaDepth - 1),
                    n \in (MAX_SCHEMA_DEPTH - 1)..MaxNest}

\* as KeepsEntry, and values that are empty objects are left out
KeepsEntrySkippingEmpty(isPropertyMap, e) ==
  /\ isPropertyMap \/ e.key \in GEMINI_ALLOWED_SCHEMA_KEYS
  /\ ~(e.node.kind = "obj" /\ e.node.kids = <<>>)

\* the negation of the `continue` test of the loop (line 287)
KeepsEntry(isPropertyMap, e) ==
  isPropertyMap \/ e.key \in GEMINI_ALLOWED_SCHEMA_KEYS

RECURSIVE CleanSchema(_, _, _)
\* cleanSchema(schema, isPropertyMap, depth): the entries that pass the
\* `continue` test, their object and array values cleaned one level deeper;
\* the elements of an array are all kept and cleaned as schemas
CleanSchema(schema, isPropertyMap, depth) ==
  IF schema.kind = "prim" THEN schema
  ELSE IF depth > MAX_SCHEMA_DEPTH THEN schema
  ELSE LET kept == IF schema.kind = "arr" THEN schema.kids
                   ELSE SelectSeq(schema.kids, LAMBDA e : KeepsEntry(isPropertyMap, e))
       IN [kind |-> schema.kind,
           kids |-> [i \in 1..Len(kept) |->
                       IF kept[i].node.kind = "prim" THEN kept[i]
                       ELSE Entry(kept[i].key,
                                  CleanSchema(kept[i].node,
                                              schema.kind = "obj" /\ kept[i].key = "properties",
                                              depth + 1))]]

CsIdle == [pc |-> "idle", once |-> Prim, twice |-> Prim]

\* decl.parameters = cleanSchema(tool.input_schema) (line 219)
CsClean ==
  /\ sc.pc = "idle"
  /\ sc' = [sc EXCEPT !.pc = "once", !.once = CleanSchema(toolSchema, FALSE, 0)]
  /\ UNCHANGED <<toolSchema, notSchemaVars>>

\* cleanSchema applied to its own result
CsCleanAgain ==
  /\ sc.pc = "once"
  /\ sc' = [sc EXCEPT !.pc = "twice", !.twice = CleanSchema(sc.once, FALSE, 0)]
  /\ UNCHANGED <<toolSchema, notSchemaVars>>

SchemaNext == CsClean \/ CsCleanAgain

(***************************************************************************)
(* Claims about cleanSchema.                                               *)
(***************************************************************************)
RECURSIVE SchemaDepth(_)
\* levels of nesting below the root
SchemaDepth(node) ==
  IF node.kids = <<>> THEN 0
  ELSE LET ds == {SchemaDepth(node.kids[i].node) : i \in 1..Len(node.kids)}
       IN 1 + CHOOSE d \in ds : \A e \in ds : e <= d

KeysOf(node) == {node.kids[i].key : i \in 1..Len(node.kids)}
ChildOf(node, key) ==
  node.kids[CHOOSE i \in 1..Len(node.kids) : node.kids[i].key = key].node

RECURSIVE OnlyAllowed(_, _)
\* every object of the value that is a schema has allow-listed keys only;
\* the values of a properties map are schemas, whatever their names
OnlyAllowed(node, isPropertyMap) ==
  \A i \in 1..Len(node.kids) :
    LET e == node.kids[i]
    IN IF node.kind = "arr" \/ isPropertyMap
       THEN OnlyAllowed(e.node, FALSE)
       ELSE /\ e.key \in GEMINI_ALLOWED_SCHEMA_KEYS
            /\ OnlyAllowed(e.node, e.key = "properties")

RECURSIVE KeepsNames(_, _, _)
\* every properties map of the cleaned value has all the keys it had
KeepsNames(raw, cleaned, isPropertyMap) ==
  IF raw.kind # cleaned.kind THEN FALSE
  ELSE IF raw.kind = "arr"
  THEN /\ Len(cleaned.kids) = Len(raw.kids)
       /\ \A i \in 1..Len(raw.kids) : KeepsNames(raw.kids[i].node, cleaned.kids[i].node, FALSE)
  ELSE /\ KeysOf(cleaned) \subseteq KeysOf(raw)
       /\ isPropertyMap => KeysOf(cleaned) = KeysOf(raw)
       /\ \A k \in KeysOf(cleaned) :
            KeepsNames(ChildOf(raw, k), ChildOf(cleaned, k), ~isPropertyMap /\ k = "properties")

\* C23: for a schema within the depth bound, the cleaned schema has only
\* allow-listed keys in every object that is not a properties map, and
\* every properties map keeps all its keys.
C23_AllowListed ==
  (sc.pc # "idle" /\ SchemaDepth(toolSchema) <= MAX_SCHEMA_DEPTH)
  => (OnlyAllowed(sc.once, FALSE) /\ KeepsNames(toolSchema, sc.once, FALSE))

\* C24: cleaning a cleaned schema changes nothing.
C24_Idempotent ==
  sc.pc = "twice" => sc.twice = sc.once

\* a schema nested deeper than the recursion bound, part of it cleaned and
\* a key off the allow-list left below the bound, has been cleaned twice
C24_Witness ==
  /\ sc.pc = "twice"
  /\ SchemaDepth(toolSchema) > MAX_SCHEMA_DEPTH + 1
  /\ sc.once # toolSchema
  /\ ~OnlyAllowed(sc.once, FALSE)

(***************************************************************************)
(* startInterceptor, shutdownHandler and cleanup (src/src/index.ts, lines  *)
(* 166-259), the hosts file functions (src/src/dns.ts, lines 29-53) and    *)
(* startServer (src/unnamed/part_004).  The hosts file is the number of    *)
(* its lines that hold HOSTS_MARKER.                                       *)
(***************************************************************************)
\* addHostsEntry(): nothing when the marker is in the file
AddHostsEntry(markers) == IF markers > 0 THEN markers ELSE 1

\* removeHostsEntry(): the lines with the marker are filtered out
RemoveHostsEntry(markers) == 0

GwIdle ==
  [pc |-> "idle", added |-> FALSE, listening |-> FALSE, handlers |-> FALSE,
   shuttingDown |-> FALSE, pidFile |-> FALSE, exitCode |-> 0, by |-> "none"]

\* process.exit(code): the connections still open are cut
ExitProcess(g, c, code, by) ==
  [g |-> [g EXCEPT !.pc = "exited", !.exitCode = code, !.by = by, !.listening = FALSE],
   c |-> [r \in Requests |-> IF c[r] = "open" THEN "cut" ELSE c[r]]]

\* shutdownHandler (lines 222-231): server.close(), cleanup(), process.exit(0)
ShutdownHandler(g, c, by) ==
  IF g.shuttingDown THEN [g |-> g, c |-> c, hosts |-> hostsFile]
  ELSE LET r == ExitProcess([g EXCEPT !.shuttingDown = TRUE, !.pidFile = FALSE], c, 0, by)
       IN [g |-> r.g, c |-> r.c, hosts |-> RemoveHostsEntry(hostsFile)]

\* startInterceptor up to addHostsEntry() and the call of startServer
\* (lines 167-204)
GwStart ==
  /\ gw.pc = "idle"
  /\ gw' = [gw EXCEPT !.pc = "starting", !.added = hostsFile = 0]
  /\ hostsFile' = AddHostsEntry(hostsFile)
  /\ UNCHANGED <<conns, notLifeVars>>

\* a failed prerequisite or a rejected initAnthropicIP: exit before the
\* hosts file is touched (lines 168-195)
GwPrerequisiteFails ==
  /\ gw.pc = "idle"
  /\ LET r == ExitProcess(gw, conns, 1, "prerequisite")
     IN gw' = r.g /\ conns' = r.c
  /\ UNCHANGED <<hostsFile, notLifeVars>>

\* startServer resolves: PID file, signal handlers (lines 204-234)
GwListening ==
  /\ gw.pc = "starting"
  /\ gw' = [gw EXCEPT !.pc = "running", !.listening = TRUE, !.pidFile = TRUE,
                      !.handlers = TRUE]
  /\ UNCHANGED <<hostsFile, conns, notLifeVars>>

\* startServer rejects: removeHostsEntry(), process.exit(1) (lines 205-209)
GwServerFails ==
  /\ gw.pc = "starting"
  /\ hostsFile' = RemoveHostsEntry(hostsFile)
  /\ LET r == ExitProcess(gw, conns, 1, "start failure")
     IN gw' = r.g /\ conns' = r.c
  /\ UNCHANGED notLifeVars

\* the server accepts a request
GwAccept(r) ==
  /\ gw.pc = "running"
  /\ gw.listening
  /\ conns[r] = "none"
  /\ conns' = [conns EXCEPT ![r] = "open"]
  /\ UNCHANGED <<gw, hostsFile, notLifeVars>>

\* a request is answered in full
GwFinish(r) ==
  /\ gw.pc = "running"
  /\ conns[r] = "open"
  /\ conns' = [conns EXCEPT ![r] = "done"]
  /\ UNCHANGED <<gw, hostsFile, notLifeVars>>

\* SIGINT or SIGTERM arrives: shutdownHandler when registered, else the
\* default disposition ends the process
GwSignal(sig) ==
  /\ gw.pc \in {"starting", "running"}
  /\ IF gw.handlers
     THEN LET r == ShutdownHandler(gw, conns, sig)
          IN gw' = r.g /\ conns' = r.c /\ hostsFile' = r.hosts
     ELSE /\ LET r == ExitProcess(gw, conns, 130, sig)
             IN gw' = r.g /\ conns' = r.c
          /\ UNCHANGED hostsFile
  /\ UNCHANGED notLifeVars

\* `cmm stop` in a second process: cleanup() (lines 237-259) removes the
\* entry and, when the PID file is there, sends SIGTERM to the gateway
GwStopCommand ==
  /\ gw.pc \in {"starting", "running"}
  /\ IF gw.pidFile
     THEN LET r == ShutdownHandler(gw, conns, "stop")
          IN gw' = r.g /\ conns' = r.c /\ hostsFile' = RemoveHostsEntry(r.hosts)
     ELSE /\ hostsFile' = RemoveHostsEntry(hostsFile)
          /\ UNCHANGED <<gw, conns>>
  /\ UNCHANGED notLifeVars

LifeNext ==
  \/ GwStart \/ GwPrerequisiteFails \/ GwListening \/ GwServerFails
  \/ \E r \in Requests : GwAccept(r) \/ GwFinish(r)
  \/ \E sig \in {"SIGINT", "SIGTERM"} : GwSignal(sig)
  \/ GwStopCommand

(***************************************************************************)
(* Claims about starting and stopping.                                     *)
(***************************************************************************)
\* C25: no request that was in flight when SIGINT or SIGTERM arrived is cut
\* off by the shutdown.
C25_DrainsInFlight ==
  (gw.pc = "exited" /\ gw.by \in {"SIGINT", "SIGTERM"})
  => \A r \in Requests : conns[r] # "cut"

\* C26: after a stop by SIGINT, SIGTERM, the stop command or a server start
\* failure, the hosts file holds no managed entry the interceptor added.
C26_HostsEntryRemoved ==
  (/\ gw.pc = "exited"
   /\ gw.added
   /\ gw.by \in {"SIGINT", "SIGTERM", "stop", "start failure"})
  => hostsFile = 0

(***************************************************************************)
(* The logger (src/src/logger.ts).  The log directory is a function from   *)
(* the suffix of a file name (0 is cmm.log, i is cmm.log.i) to the file:   *)
(* its size in bytes and the numbers of its oldest and newest line.        *)
(***************************************************************************)
MAX_SIZE == 1048576

MAX_BACKUPS == 3

Suffixes == 0..(MAX_BACKUPS + 1)

NoFile == [size |-> -1, first |-> 0, last |-> 0]

LogFile(size, first, last) == [size |-> size, first |-> first, last |-> last]

\* Buffer.byteLength(line + '\n') of the lines written
LineSizes == {1, MAX_SIZE \div 2, MAX_SIZE}

\* fs.statSync(LOG_FILE).size, or the catch branch
StatSize(files) == IF files[0] = NoFile THEN 0 ELSE files[0].size

\* fs.unlinkSync(to) in try/catch
Unlink(files, to) == [files EXCEPT ![to] = NoFile]

\* fs.renameSync(from, to) in try/catch: ENOENT changes nothing
Rename(files, from, to) ==
  IF files[from] = NoFile THEN files
  ELSE [files EXCEPT ![to] = files[from], ![from] = NoFile]

\* the loop of rotateIfNeeded, from i down to 1
RECURSIVE ShiftBackups(_, _)
ShiftBackups(files, i) ==
  IF i < 1 THEN files
  ELSE LET unlinked == IF i = MAX_BACKUPS THEN Unlink(files, i) ELSE files
       IN ShiftBackups(Rename(unlinked, i - 1, i), i - 1)

\* the test `currentSize < MAX_SIZE` with > for >=
BelowMaxOrEqual(size) == size <= MAX_SIZE

BelowMax(size) == size < MAX_SIZE

\* rotateIfNeeded(): the directory and currentSize after it
RotateIfNeeded(files, size) ==
  LET cur == IF size < 0 THEN StatSize(files) ELSE size
  IN IF BelowMax(cur) THEN [files |-> files, size |-> cur]
     ELSE [files |-> ShiftBackups(files, MAX_BACKUPS), size |-> 0]

\* fs.appendFileSync(LOG_FILE, data): creates the file when it is missing
AppendFile(files, len, line) ==
  [files EXCEPT ![0] = IF files[0] = NoFile THEN LogFile(len, line, line)
                       ELSE LogFile(files[0].size + len, files[0].first, line)]

\* writeLine(line)
WriteLine(len) ==
  /\ lgWrites < MaxWrites
  /\ LET r == RotateIfNeeded(logFiles, currentSize)
     IN /\ logFiles' = AppendFile(r.files, len, lgWrites + 1)
        /\ currentSize' = r.size + len
  /\ lgWrites' = lgWrites + 1
  /\ UNCHANGED notLogVars

\* the gateway is started again: the module is loaded with currentSize = -1
LgRestart ==
  /\ currentSize >= 0
  /\ currentSize' = -1
  /\ UNCHANGED <<logFiles, lgWrites, notLogVars>>

LogNext ==
  \/ \E len \in LineSizes : WriteLine(len)
  \/ LgRestart

\* the directories an earlier run can leave: k backups and the log file
LogDirs ==
  {[s \in Suffixes |->
      IF s = 0 THEN (IF size < 0 THEN NoFile ELSE LogFile(size, 0, 0))
      ELSE IF s <= k THEN LogFile(MAX_SIZE, -s, -s) ELSE NoFile] :
     size \in {-1, 0, MAX_SIZE - 1, MAX_SIZE, MAX_SIZE + 1}, k \in 0..MAX_BACKUPS}

(***************************************************************************)
(* Claims about the logger.                                                *)
(***************************************************************************)
Backups == {s \in Suffixes \ {0} : logFiles[s] # NoFile}

\* the files from cmm.log to cmm.log.3 run from newest to oldest
NewestFirst ==
  \A s, t \in Suffixes :
    (s < t /\ logFiles[s] # NoFile /\ logFiles[t] # NoFile)
    => logFiles[s].first > logFiles[t].last

\* a write that finds the log file at MAX_SIZE or more rotates, then appends
RotatesBeforeAppend ==
  (lgWrites' = lgWrites + 1 /\ StatSize(logFiles) >= MAX_SIZE)
  => /\ logFiles'[3] = logFiles[2]
     /\ logFiles'[2] = logFiles[1]
     /\ logFiles'[1] = logFiles[0]
     /\ logFiles'[0].first = lgWrites'
     /\ logFiles'[0].last = lgWrites'
     /\ logFiles'[0].size \in LineSizes

StripBlockTypes == BlockTypes \cup {"tool_use"}

StringContent == [isArray |-> FALSE, blocks |-> <<>>]

ArrayContent(blocks) == [isArray |-> TRUE, blocks |-> blocks]

StripContents ==
  {StringContent} \cup {ArrayContent(b) : b \in SeqsUpTo(StripBlockTypes, MaxBlocks)}

StripMessages == [role : Roles, content : StripContents]

\* the callback of body.messages.map
StripMessage(msg) ==
  IF msg.role # "assistant" \/ ~msg.content.isArray THEN msg
  ELSE [msg EXCEPT !.content = ArrayContent(StripThinkingBlocks(msg.content.blocks))]

\* stripThinkingBlocks(body): the messages of the retry body
StripBody(msgs) == [i \in 1..Len(msgs) |-> StripMessage(msgs[i])]

StIdle == [pc |-> "idle", messages |-> <<>>]

\* the retryBodyFn of the router is called
StStrip ==
  /\ stripped.pc = "idle"
  /\ stripped' = [pc |-> "done", messages |-> StripBody(stripBody)]
  /\ UNCHANGED <<stripBody, notStripVars>>

StripNext == StStrip

(***************************************************************************)
(* Claims about the retry body.                                            *)
(***************************************************************************)
HasThinking(content) ==
  content.isArray /\ \E j \in 1..Len(content.blocks) : content.blocks[j] = "thinking"

\* C36: the retry body has no thinking block in any assistant message; it has
\* the messages of the body, in their order, the user messages as they were
\* and, in every message, the blocks that are not thinking blocks in their
\* order.
C36_NoThinkingLeft ==
  stripped.pc = "done"
  => /\ Len(stripped.messages) = Len(stripBody)
     /\ \A i \in 1..Len(stripBody) :
          LET was == stripBody[i]
              now == stripped.messages[i]
          IN /\ now.role = was.role
             /\ was.role = "user" => now = was
             /\ now.content.isArray = was.content.isArray
             /\ FilterThinking(now.content.blocks) = FilterThinking(was.content.blocks)
             /\ now.role = "assistant" => ~HasThinking(now.content)

(***************************************************************************)
(* Specifications: one per subsystem.                                      *)
(***************************************************************************)
RouterIdle ==
  /\ mapping = [sourceModel |-> <<"a">>, targetModel |-> "gemini"]
  /\ rt = RtIdle
  /\ rtCalls = <<>>

StreamIdle ==
  /\ tr = TrInit
  /\ out = <<>>
  /\ mon = MonInit
  /\ nChunks = 0

ProxyIdle ==
  /\ px = PxIdle
  /\ cl = ClInit

GeminiRequestsIdle ==
  /\ cachedToken = NoToken
  /\ oauth = [started |-> 0, issued |-> 0]
  /\ gq = [r \in Requests |-> GqIdle]
  /\ gc = [r \in Requests |-> ClInit]

GeminiIdle ==
  /\ GeminiRequestsIdle
  /\ creds = [readable |-> TRUE, tok |-> 0, fresh |-> TRUE]

PassIdle ==
  /\ pt = PtIdle
  /\ pcl = ClInit

SseIdle ==
  /\ parser = [buffer |-> <<>>]
  /\ sseIn = [events |-> <<>>, eventLine |-> FALSE, trailer |-> <<>>]
  /\ sseRun = SseRunInit

MessagesIdle ==
  /\ messages = <<>>
  /\ ag = AgIdle

SchemaIdle ==
  /\ toolSchema = Prim
  /\ sc = CsIdle

LifeIdle ==
  /\ gw = GwIdle
  /\ hostsFile = 0
  /\ conns = [r \in Requests |-> "none"]

LogIdle ==
  /\ logFiles = [s \in Suffixes |-> NoFile]
  /\ currentSize = -1
  /\ lgWrites = 0

StripIdle ==
  /\ stripBody = <<>>
  /\ stripped = StIdle

OthersIdle(own) ==
  /\ ("Router" = own \/ RouterIdle)
  /\ ("Stream" = own \/ StreamIdle)
  /\ ("Proxy" = own \/ ProxyIdle)
  /\ ("Gemini" = own \/ GeminiIdle)
  /\ ("Pass" = own \/ PassIdle)
  /\ ("Sse" = own \/ SseIdle)
  /\ ("Messages" = own \/ MessagesIdle)
  /\ ("Schema" = own \/ SchemaIdle)
  /\ ("Life" = own \/ LifeIdle)
  /\ ("Log" = own \/ LogIdle)
  /\ ("Strip" = own \/ StripIdle)

RouterInit ==
  /\ mapping \in [sourceModel : ModelNames \ {<<>>}, targetModel : {"gemini"}]
  /\ rt = RtIdle
  /\ rtCalls = <<>>
  /\ OthersIdle("Router")

StreamInit ==
  /\ StreamIdle
  /\ OthersIdle("Stream")

ProxyInit ==
  /\ ProxyIdle
  /\ OthersIdle("Proxy")

GeminiInit ==
  /\ GeminiRequestsIdle
  /\ creds \in CredsFiles
  /\ OthersIdle("Gemini")

PassInit ==
  /\ pt \in {[PtIdle EXCEPT !.rawBody = b] : b \in RequestBodies}
  /\ pcl = ClInit
  /\ OthersIdle("Pass")

SseInit ==
  /\ parser = [buffer |-> <<>>]
  /\ sseIn \in SseInputs
  /\ sseRun = SseRunInit
  /\ OthersIdle("Sse")

MessagesInit ==
  /\ \E k \in 0..MaxItems :
       IF k = 0 THEN messages = <<>>
       ELSE \E body \in [1..(k - 1) -> BlockItems \cup RoleMarks] : \E mark \in RoleMarks :
              messages = MessagesOf(body \o <<mark>>, <<>>)
  /\ ag = AgIdle
  /\ OthersIdle("Messages")

SchemaInit ==
  /\ toolSchema \in InputSchemas
  /\ sc = CsIdle
  /\ OthersIdle("Schema")

LifeInit ==
  /\ gw = GwIdle
  /\ hostsFile \in {0, 1}
  /\ conns = [r \in Requests |-> "none"]
  /\ OthersIdle("Life")

LogInit ==
  /\ logFiles \in LogDirs
  /\ currentSize = -1
  /\ lgWrites = 0
  /\ OthersIdle("Log")

StripInit ==
  /\ stripBody \in SeqsUpTo(StripMessages, MaxStripMessages)
  /\ stripped = StIdle
  /\ OthersIdle("Strip")

SpecRouter == RouterInit /\ [][RouterNext]_vars
SpecStream == StreamInit /\ [][StreamNext]_vars
SpecProxy == ProxyInit /\ [][ProxyNext]_vars
SpecGemini == GeminiInit /\ [][GeminiNext]_vars
SpecPass == PassInit /\ [][PassNext]_vars
SpecSse == SseInit /\ [][SseNext]_vars
SpecMessages == MessagesInit /\ [][MessagesNext]_vars
SpecSchema == SchemaInit /\ [][SchemaNext]_vars
SpecLife == LifeInit /\ [][LifeNext]_vars
SpecLog == LogInit /\ [][LogNext]_vars
SpecStrip == StripInit /\ [][StripNext]_vars
SpecCalls == StreamInit /\ [][CallsNext]_vars
SpecUsage == StreamInit /\ [][UsageNext]_vars

FlushInit ==
  /\ parser = [buffer |-> <<>>]
  /\ sseIn \in SseInputsWithTrailer
  /\ sseRun = SseRunInit
  /\ OthersIdle("Sse")

SpecFlush == FlushInit /\ [][FlushNext]_vars

\* One client request on one of its three paths: answered by the router,
\* by an intercept handler, or by the passthrough.
HeadsInit == RouterInit \/ ProxyInit \/ PassInit

HeadsNext ==
  \/ ProxyIdle /\ PassIdle /\ RouterNext
  \/ RouterIdle /\ PassIdle /\ ProxyNext
  \/ RouterIdle /\ ProxyIdle /\ PassNext

SpecHeads == HeadsInit /\ [][HeadsNext]_vars

Init ==
  \/ RouterInit
  \/ StreamInit
  \/ ProxyInit
  \/ GeminiInit
  \/ PassInit
  \/ SseInit
  \/ MessagesInit
  \/ SchemaInit
  \/ LifeInit
  \/ LogInit
  \/ StripInit
Next ==
  \/ RouterNext
  \/ StreamNext
  \/ ProxyNext
  \/ GeminiNext
  \/ PassNext
  \/ SseNext
  \/ MessagesNext
  \/ SchemaNext
  \/ LifeNext
  \/ LogNext
  \/ StripNext
Spec == Init /\ [][Next]_vars
====
